---- MODULE Spec2Model ----
(***************************************************************************)
(* Model of the audio_engine timeline renderer.                            *)
(*                                                                         *)
(* Times are integers counted in ticks; TicksPerMs ticks make one          *)
(* millisecond, so that int(x * 1000) of a time x is x \div TicksPerMs.    *)
(* Three state machines share the variables below:                         *)
(*   SpecPipeline  the front end of render / render_streaming              *)
(*                 (preprocess_scenes, auto_fix_overlaps, validate)        *)
(*   SpecStream    the chunk loop of render_streaming.render_pass          *)
(*   SpecBatch     the whole-file track loop of render                     *)
(***************************************************************************)
EXTENDS Integers, Sequences, FiniteSets, TLC

VARIABLES
    entry,        \* pipeline: "render" or "render_streaming"
    pc,           \* position of the running entry point
    timeline,     \* the timeline dict, mutated in place by the front end
    before,       \* the timeline as it was when the last step began
    error,        \* class of the exception that left the entry point, or "none"
    warnings,     \* what validate_timeline returned: "unset", "None" or a list
    pass_no,      \* render_streaming: number of the running render_pass
    chunk_start,  \* render_pass: start of the next chunk, in ticks
    writer,       \* render_pass: the StreamWriter (its file, whether it is open)
    files,        \* the audio files on disk: the segments written to each
    processor,    \* ChunkProcessor: streaming compressors, EQ chains, loaders
    estimator,    \* StreamingLoudnessEstimator.measurements, as chunk starts
    track_no,     \* render: number of tracks processed
    canvas,       \* render: the track buffers overlaid on the canvas
    args,         \* a call of a library function: its name and arguments
    ret           \* what the call returned, <<>> before it returns

pvars == <<entry, pc, timeline, before, error, warnings>>

svars == <<pass_no, chunk_start, writer, files, processor, estimator>>

bvars == <<track_no, canvas>>

dvars == <<args, ret>>

vars == <<entry, pc, timeline, before, error, warnings, pass_no, chunk_start,
          writer, files, processor, estimator, track_no, canvas, args, ret>>

----------------------------------------------------------------------------
(* Bounds and scales *)

TicksPerMs == 2
MaxStart == 3

(* A field a dict does not hold *)
Absent == -1

Max(a, b) == IF a >= b THEN a ELSE b
Min(a, b) == IF a <= b THEN a ELSE b

(* int(x * 1000) for a time x given in ticks: the fraction is cut off *)
ToMs(x) == IF x >= 0 THEN x \div TicksPerMs ELSE -((-x) \div TicksPerMs)

----------------------------------------------------------------------------
(* Source files on disk: length in ms of the decoded audio; a path that is *)
(* not listed does not exist.                                              *)

ExistingFiles == {"a.wav", "b.wav", "c.wav", "d.wav"}

FileMs(f) ==
    CASE f = "a.wav" -> 2
      [] f = "b.wav" -> 1
      [] f = "c.wav" -> 4
      [] f = "d.wav" -> 100
      [] OTHER -> 0

(* len(audio) / 1000.0 in ticks *)
FileDur(f) == FileMs(f) * TicksPerMs

FileExists(f) == f \in ExistingFiles

----------------------------------------------------------------------------
(* Timeline documents.  A dict that may hold scalars and nested dicts is a *)
(* function from its keys to values of one shape: a scalar n, or a nested  *)
(* dict given as a set of <<subkey, number>> pairs.                        *)

Scalar(n) == [kind |-> "scalar", v |-> n, d |-> {}]
DictV(pairs) == [kind |-> "dict", v |-> 0, d |-> pairs]

EmptyDict == [k \in {} |-> Scalar(0)]

HasKey(dict, k) == k \in DOMAIN dict

(* dict.get(k, {}).get(sub, default) on a nested dict *)
SubKeys(val) == {p[1] : p \in val.d}
SubGet(val, sub, default) ==
    IF val.kind = "dict" /\ sub \in SubKeys(val)
    THEN (CHOOSE p \in val.d : p[1] = sub)[2]
    ELSE default

NestedGet(dict, k, sub, default) ==
    IF HasKey(dict, k) THEN SubGet(dict[k], sub, default) ELSE default

(* settings.get(k, default) for a scalar setting *)
ScalarGet(dict, k, default) ==
    IF HasKey(dict, k) /\ dict[k].kind = "scalar" THEN dict[k].v ELSE default

(* bool(dict.get(k)) and dict.get(k).get("enabled") for a nested config *)
Enabled(dict, k) ==
    /\ HasKey(dict, k)
    /\ dict[k].kind = "dict"
    /\ dict[k].d # {}
    /\ SubGet(dict[k], "enabled", 0) # 0

(* A clip.  start, loop_until, fade_in, fade_out are Absent when the clip  *)
(* dict has no such key; file "" is a clip without a file; has_rules tells *)
(* whether the clip carries _rules.                                        *)
Clip(file, start) ==
    [file |-> file, start |-> start, offset |-> 0,
     loop |-> FALSE, loop_until |-> Absent,
     fade_in |-> Absent, fade_out |-> Absent,
     eq_preset |-> "", semantic_role |-> "",
     has_rules |-> FALSE, rules |-> EmptyDict]

LoopClip(file, start, until) ==
    [Clip(file, start) EXCEPT !.loop = TRUE, !.loop_until = until]

SceneClip(file, offset, loop) ==
    [Clip(file, Absent) EXCEPT !.offset = offset, !.loop = loop]

Track(id, role, clips) ==
    [id |-> id, role |-> role, has_clips |-> TRUE, clips |-> clips,
     eq_preset |-> "", semantic_role |-> ""]

Scene(start, duration, tracks, rules, energy) ==
    [start |-> start, duration |-> duration, tracks |-> tracks,
     rules |-> rules, energy |-> energy]

SceneTrack(id, clips) == [id |-> id, clips |-> clips]

Timeline(duration, tracks, scenes, settings) ==
    [has_project |-> TRUE, duration |-> duration, tracks |-> tracks,
     scenes |-> scenes, settings |-> settings]

----------------------------------------------------------------------------
(* scene_preprocessor.merge_rules *)

DictUpdate(d1, d2) == {p \in d1 : \A q \in d2 : q[1] # p[1]} \cup d2

(* The keys on which merged[key].update(value) is called with a value that *)
(* is not a dict: update raises TypeError there.                           *)
MergeClash(global_rules, scene_rules) ==
    {k \in DOMAIN scene_rules :
        /\ k \in DOMAIN global_rules
        /\ global_rules[k].kind = "dict"
        /\ scene_rules[k].kind # "dict"}

merge_rules(global_rules, scene_rules) ==
    IF MergeClash(global_rules, scene_rules) # {}
    THEN [error |-> "TypeError", val |-> EmptyDict]
    ELSE [error |-> "none",
          val |-> [k \in DOMAIN global_rules \cup DOMAIN scene_rules |->
                     IF k \notin DOMAIN scene_rules THEN global_rules[k]
                     ELSE IF k \in DOMAIN global_rules /\ global_rules[k].kind = "dict"
                          THEN DictV(DictUpdate(global_rules[k].d, scene_rules[k].d))
                          ELSE scene_rules[k]]]

(* d[k] = value on a dict *)
DictSet(dict, k, val) ==
    [x \in DOMAIN dict \cup {k} |-> IF x = k THEN val ELSE dict[x]]

----------------------------------------------------------------------------
(* Stable sort of the clips that have a start, by start: the indices of    *)
(* the clips in sorted order (list.sort(key=start) on the filtered list).  *)

RECURSIVE InsertByStart(_, _, _)
InsertByStart(order, i, clips) ==
    IF order = <<>> THEN <<i>>
    ELSE IF clips[Head(order)].start <= clips[i].start
         THEN <<Head(order)>> \o InsertByStart(Tail(order), i, clips)
         ELSE <<i>> \o order

RECURSIVE SortPrefix(_, _)
SortPrefix(clips, n) ==
    IF n = 0 THEN <<>>
    ELSE IF clips[n].start = Absent THEN SortPrefix(clips, n - 1)
         ELSE InsertByStart(SortPrefix(clips, n - 1), n, clips)

SortedByStart(clips) == SortPrefix(clips, Len(clips))

----------------------------------------------------------------------------
(* scene_preprocessor.apply_scene_crossfades *)

CrossfadeToleranceMs == 50
DefaultCrossfadeMs == 1500
(* scene.get("energy", 0.5), in tenths *)
DefaultSceneEnergy == 5

Abs(x) == IF x < 0 THEN -x ELSE x

(* clip.get(key, 0) for a fade given in seconds *)
FadeOr0(x) == IF x = Absent THEN 0 ELSE x

RECURSIVE CrossfadeWalk(_, _, _, _)
CrossfadeWalk(clips, order, i, default_duration) ==
    IF i >= Len(order) THEN clips
    ELSE LET ia == order[i]
             ib == order[i + 1]
             a == clips[ia]
             b == clips[ib]
             end_a == IF a.loop_until # Absent THEN a.loop_until ELSE a.start
             duration == NestedGet(b.rules, "scene_crossfade", "duration",
                                   default_duration)
             touch == /\ a.has_rules /\ b.has_rules
                      /\ Abs(end_a - b.start) < CrossfadeToleranceMs * TicksPerMs
             a2 == [a EXCEPT !.fade_out = Max(FadeOr0(@), duration)]
             b2 == [b EXCEPT !.fade_in = Max(FadeOr0(@), duration),
                             !.start = Max(@ - duration, 0)]
         IN  CrossfadeWalk(
                 IF touch THEN [clips EXCEPT ![ia] = a2, ![ib] = b2] ELSE clips,
                 order, i + 1, default_duration)

apply_scene_crossfades(track_clips, default_duration) ==
    LET order == SortedByStart(track_clips)
    IN  IF Len(order) < 2 THEN track_clips
        ELSE CrossfadeWalk(track_clips, order, 1, default_duration)

----------------------------------------------------------------------------
(* scene_preprocessor.preprocess_scenes *)

(* track_map[id]: the index of the track registered last under that id *)
TrackIds(tracks) == {tracks[i].id : i \in 1..Len(tracks)}
TrackIndex(tracks, id) ==
    CHOOSE i \in 1..Len(tracks) :
        /\ tracks[i].id = id
        /\ \A j \in 1..Len(tracks) : tracks[j].id = id => j <= i

(* The clone of one scene clip that is appended to the track *)
ExpandClip(scene, clip, effective_rules) ==
    [clip EXCEPT
        !.start = scene.start + clip.offset,
        !.loop_until = IF clip.loop THEN scene.start + scene.duration ELSE @,
        !.has_rules = TRUE,
        !.rules = DictSet(effective_rules, "scene_energy",
                          Scalar(IF scene.energy = Absent
                                 THEN DefaultSceneEnergy ELSE scene.energy))]

(* The three nested loops over scenes, scene tracks and clips, walked in   *)
(* order; the walk stops at the first exception and keeps what was         *)
(* appended before it.                                                     *)
RECURSIVE ExpandClips(_, _, _, _, _, _)
ExpandClips(tracks, scene, track_id, clips, k, effective_rules) ==
    IF k > Len(clips) THEN [tracks |-> tracks, error |-> "none"]
    ELSE LET ti == TrackIndex(tracks, track_id)
             appended == [tracks EXCEPT ![ti].clips =
                            Append(@, ExpandClip(scene, clips[k], effective_rules))]
         IN  IF "music" \notin TrackIds(tracks)
             THEN [tracks |-> appended, error |-> "KeyError"]
             ELSE ExpandClips(appended, scene, track_id, clips, k + 1,
                              effective_rules)

RECURSIVE ExpandSceneTracks(_, _, _, _)
ExpandSceneTracks(tracks, scene, t, effective_rules) ==
    IF t > Len(scene.tracks) THEN [tracks |-> tracks, error |-> "none"]
    ELSE IF scene.tracks[t].id \notin TrackIds(tracks)
         THEN [tracks |-> tracks, error |-> "ValueError"]
         ELSE LET r == ExpandClips(tracks, scene, scene.tracks[t].id,
                                   scene.tracks[t].clips, 1, effective_rules)
              IN  IF r.error # "none" THEN r
                  ELSE ExpandSceneTracks(r.tracks, scene, t + 1, effective_rules)

RECURSIVE ExpandScenes(_, _, _, _)
ExpandScenes(tracks, scenes, s, global_settings) ==
    IF s > Len(scenes) THEN [tracks |-> tracks, error |-> "none"]
    ELSE LET m == merge_rules(global_settings, scenes[s].rules)
         IN  IF m.error # "none" THEN [tracks |-> tracks, error |-> m.error]
             ELSE LET r == ExpandSceneTracks(tracks, scenes[s], 1, m.val)
                  IN  IF r.error # "none" THEN r
                      ELSE ExpandScenes(r.tracks, scenes, s + 1, global_settings)

preprocess_scenes(tl) ==
    IF tl.scenes = <<>> THEN [timeline |-> tl, error |-> "none"]
    ELSE LET with_clips == [i \in 1..Len(tl.tracks) |->
                              IF tl.tracks[i].has_clips THEN tl.tracks[i]
                              ELSE [tl.tracks[i] EXCEPT !.has_clips = TRUE,
                                                        !.clips = <<>>]]
             r == ExpandScenes(with_clips, tl.scenes, 1, tl.settings)
             default_duration ==
                 NestedGet(tl.settings, "scene_crossfade", "duration",
                           DefaultCrossfadeMs * TicksPerMs)
             faded == [i \in 1..Len(r.tracks) |->
                         [r.tracks[i] EXCEPT !.clips =
                             apply_scene_crossfades(@, default_duration)]]
         IN  IF r.error # "none"
             THEN [timeline |-> [tl EXCEPT !.tracks = r.tracks], error |-> r.error]
             ELSE IF NestedGet(tl.settings, "scene_crossfade", "enabled", 0) # 0
                  THEN [timeline |-> [tl EXCEPT !.tracks = faded], error |-> "none"]
                  ELSE [timeline |-> [tl EXCEPT !.tracks = r.tracks], error |-> "none"]

----------------------------------------------------------------------------
(* autofix.auto_fix_overlaps *)

(* The end the walk computes for a clip (lines 27-32) *)
AutofixEnd(clip) ==
    IF clip.loop
    THEN (IF clip.loop_until # Absent THEN clip.loop_until ELSE clip.start)
    ELSE clip.start + FileDur(clip.file)

(* Mutant: the shift forgets to move loop_until with the start *)
ShiftClipKeepLoopUntil(clip, shift_to) == [clip EXCEPT !.start = shift_to]

(* The shift of lines 36-43 *)
ShiftClip(clip, shift_to) ==
    [clip EXCEPT
        !.start = shift_to,
        !.loop_until = IF clip.loop /\ @ # Absent
                       THEN @ + (shift_to - clip.start) ELSE @]

RECURSIVE FixWalk(_, _, _, _, _)
FixWalk(clips, order, has_prev, prev_end, min_gap) ==
    IF order = <<>> THEN [clips |-> clips, error |-> "none"]
    ELSE LET i == Head(order)
             clip == clips[i]
             start == clip.start
         IN  IF ~clip.loop /\ ~FileExists(clip.file)
             THEN [clips |-> clips,
                   error |-> IF clip.file = "" THEN "KeyError"
                             ELSE "FileNotFoundError"]
             ELSE LET end == AutofixEnd(clip)
                      moved == IF has_prev /\ start < prev_end + min_gap
                               THEN ShiftClip(clip, prev_end + min_gap)
                               ELSE clip
                      base == IF has_prev THEN prev_end ELSE 0
                  IN  FixWalk([clips EXCEPT ![i] = moved], Tail(order), TRUE,
                              Max(base, moved.start + (end - start)), min_gap)

auto_fix_overlaps(track, min_gap) ==
    LET order == SortedByStart(track.clips)
    IN  IF ~track.has_clips \/ Len(order) < 2
        THEN [track |-> track, error |-> "none"]
        ELSE LET r == FixWalk(track.clips, order, FALSE, 0, min_gap)
             IN  [track |-> [track EXCEPT !.clips = r.clips], error |-> r.error]

(* The loop over the tracks of render (lines 158-162, each failure caught) *)
(* and of render_streaming (lines 283-284, the first failure propagates).  *)
RECURSIVE FixTracks(_, _, _, _)
FixTracks(tracks, i, min_gap, catch) ==
    IF i > Len(tracks) THEN [tracks |-> tracks, error |-> "none"]
    ELSE LET r == auto_fix_overlaps(tracks[i], min_gap)
             fixed == [tracks EXCEPT ![i] = r.track]
         IN  IF r.error # "none" /\ ~catch
             THEN [tracks |-> fixed, error |-> r.error]
             ELSE FixTracks(fixed, i + 1, min_gap, catch)

----------------------------------------------------------------------------
(* Ducking rule lists.  A ducking config holds its "rules" list as the     *)
(* index of the list in this table, and its "mode" as 1 (audacity) or      *)
(* 2 (scene).                                                              *)

Rule(when, duck) == [when |-> when, duck |-> duck]

DuckRuleList(idx) ==
    CASE idx = 1 -> << Rule("voice", <<"music">>) >>
      [] idx = 2 -> << Rule("music", <<"music">>) >>
      [] idx = 3 -> << Rule("sfx:impact", <<"sfx">>) >>
      [] idx = 4 -> << Rule("sfx:bogus", <<"sfx:bogus", "music">>) >>
      [] idx = 5 -> << Rule("music", <<"music">>),
                       Rule("voice", <<"music">>),
                       Rule("music", <<"voice", "music">>) >>
      [] OTHER -> <<>>

IsSfxRef(role) == role \in {"sfx:impact", "sfx:movement", "sfx:ambience",
                            "sfx:interaction", "sfx:texture", "sfx:bogus"}

(* role.split(":", 1)[1] of an sfx:<semantic> reference *)
SemanticOf(role) ==
    CASE role = "sfx:impact" -> "impact"
      [] role = "sfx:movement" -> "movement"
      [] role = "sfx:ambience" -> "ambience"
      [] role = "sfx:interaction" -> "interaction"
      [] role = "sfx:texture" -> "texture"
      [] role = "sfx:bogus" -> "bogus"
      [] OTHER -> ""

----------------------------------------------------------------------------
(* validation.validate_timeline *)

VALID_SEMANTIC_ROLES == {"impact", "movement", "ambience", "interaction", "texture"}

(* One clip of the clip loop (lines 67-126); acc holds errors, warnings,   *)
(* last_end and the exception that ended the walk, if any.  A comparison   *)
(* with the duration of a missing project compares a number with None.     *)
ValidateClip(acc, clip, tl) ==
    IF clip.file = ""
    THEN [acc EXCEPT !.errors = Append(@, "clip missing file path")]
    ELSE LET w1 == IF clip.semantic_role # ""
                      /\ clip.semantic_role \notin VALID_SEMANTIC_ROLES
                   THEN Append(acc.warnings, "invalid clip semantic_role")
                   ELSE acc.warnings
         IN  IF ~FileExists(clip.file)
             THEN [acc EXCEPT !.warnings = w1,
                              !.errors = Append(@, "missing audio file")]
             ELSE LET start == IF clip.start = Absent THEN acc.last_end
                               ELSE clip.start
                      e1 == IF start < 0
                            THEN Append(acc.errors, "negative start time")
                            ELSE acc.errors
                  IN  IF ~tl.has_project
                      THEN [acc EXCEPT !.warnings = w1, !.errors = e1,
                                       !.crash = "TypeError"]
                      ELSE LET duration == tl.duration
                               end == start + FileDur(clip.file)
                               w2 == IF start > duration
                                     THEN Append(w1, "start after project end")
                                     ELSE w1
                               w3 == IF end > duration
                                     THEN Append(w2, "exceeds project duration")
                                     ELSE w2
                               w4 == IF start < acc.last_end
                                     THEN Append(w3, "overlap detected")
                                     ELSE w3
                               loop_until == IF clip.loop_until # Absent
                                             THEN clip.loop_until ELSE duration
                               e2 == IF clip.loop /\ loop_until <= start
                                     THEN Append(e1, "invalid loop_until")
                                     ELSE e1
                           IN  [acc EXCEPT !.warnings = w4, !.errors = e2,
                                           !.last_end = Max(@, end)]

RECURSIVE ValidateClips(_, _, _, _)
ValidateClips(acc, clips, k, tl) ==
    IF k > Len(clips) \/ acc.crash # "none" THEN acc
    ELSE ValidateClips(ValidateClip(acc, clips[k], tl), clips, k + 1, tl)

RECURSIVE ValidateTracks(_, _, _)
ValidateTracks(acc, i, tl) ==
    IF i > Len(tl.tracks) \/ acc.crash # "none" THEN acc
    ELSE LET track == tl.tracks[i]
             w1 == IF track.semantic_role # ""
                      /\ track.semantic_role \notin VALID_SEMANTIC_ROLES
                   THEN Append(acc.warnings, "invalid track semantic_role")
                   ELSE acc.warnings
             a1 == [acc EXCEPT !.warnings = w1, !.last_end = 0]
         IN  IF ~track.has_clips
             THEN ValidateTracks(
                      [a1 EXCEPT !.errors = Append(@, "clips must be a list")],
                      i + 1, tl)
             ELSE ValidateTracks(ValidateClips(a1, track.clips, 1, tl), i + 1, tl)

(* The warnings of the ducking rules (lines 132-153) *)
RECURSIVE DuckTargetWarnings(_, _)
DuckTargetWarnings(duck, k) ==
    IF k > Len(duck) THEN <<>>
    ELSE (IF IsSfxRef(duck[k]) /\ SemanticOf(duck[k]) \notin VALID_SEMANTIC_ROLES
          THEN <<"invalid semantic role in duck">> ELSE <<>>)
         \o DuckTargetWarnings(duck, k + 1)

RECURSIVE DuckRuleWarnings(_, _)
DuckRuleWarnings(rules, k) ==
    IF k > Len(rules) THEN <<>>
    ELSE (IF IsSfxRef(rules[k].when)
             /\ SemanticOf(rules[k].when) \notin VALID_SEMANTIC_ROLES
          THEN <<"invalid semantic role in when">> ELSE <<>>)
         \o DuckTargetWarnings(rules[k].duck, 1)
         \o DuckRuleWarnings(rules, k + 1)

(* What the body collects before its last block: errors and warnings *)
ValidateCollect(tl) ==
    LET e0 == IF tl.has_project THEN <<>> ELSE <<"missing project section">>
        e1 == IF ~tl.has_project \/ tl.duration <= 0
              THEN Append(e0, "project duration must be a positive number")
              ELSE e0
    IN  ValidateTracks([errors |-> e1, warnings |-> <<>>, last_end |-> 0,
                        crash |-> "none"], 1, tl)

(* The outcome: raised is the class of the exception that leaves the       *)
(* function ("none" when it returns), returned is "list" or "None".  The   *)
(* raise and the return statement sit inside the block of the enabled      *)
(* ducking config (lines 131-161).                                         *)
validate_timeline(tl) ==
    LET acc == ValidateCollect(tl)
        rules == DuckRuleList(NestedGet(tl.settings, "ducking", "rules", 0))
        all_warnings == acc.warnings \o DuckRuleWarnings(rules, 1)
    IN  IF acc.crash # "none"
        THEN [raised |-> acc.crash, returned |-> "None", warnings |-> <<>>,
              errors |-> acc.errors]
        ELSE IF Enabled(tl.settings, "ducking")
             THEN IF acc.errors # <<>>
                  THEN [raised |-> "ValidationError", returned |-> "None",
                        warnings |-> <<>>, errors |-> acc.errors]
                  ELSE [raised |-> "none", returned |-> "list",
                        warnings |-> all_warnings, errors |-> acc.errors]
             ELSE [raised |-> "none", returned |-> "None", warnings |-> <<>>,
                   errors |-> acc.errors]

----------------------------------------------------------------------------
(* The objects of the back ends before render_streaming and render build   *)
(* them.                                                                   *)

NoWriter == [file |-> "", open |-> FALSE, opens |-> 0, closes |-> 0]
NoFiles == [f \in {} |-> <<>>]
FreshProcessor == [compressors |-> NoFiles, eq_chains |-> NoFiles, loaders |-> {}]

StreamIdle ==
    /\ pass_no = 0
    /\ chunk_start = 0
    /\ writer = NoWriter
    /\ files = NoFiles
    /\ processor = FreshProcessor
    /\ estimator = <<>>

BatchIdle ==
    /\ track_no = 0
    /\ canvas = <<>>

NoCall ==
    /\ args = <<>>
    /\ ret = <<>>

----------------------------------------------------------------------------
(* The front end shared by TimelineRenderer.render and render_streaming   *)

Unset == [kind |-> "unset", items |-> <<>>]

(* settings.get("default_silence", 0.0) *)
MinGap(tl) == ScalarGet(tl.settings, "default_silence", 0)

(* preprocess_scenes; render wraps every exception into TimelineError,     *)
(* render_streaming lets it through.                                       *)
PreprocessScenes ==
    /\ pc = "loaded"
    /\ LET r == preprocess_scenes(timeline)
       IN  /\ timeline' = r.timeline
           /\ pc' = IF r.error = "none" THEN "preprocessed"
                    ELSE "failed_preprocess"
           /\ error' = IF r.error # "none" /\ entry = "render"
                       THEN "TimelineError" ELSE r.error
    /\ before' = timeline
    /\ UNCHANGED <<entry, warnings, svars, bvars, dvars>>

(* auto_fix_overlaps on every track *)
AutoFixOverlaps ==
    /\ pc = "preprocessed"
    /\ LET r == FixTracks(timeline.tracks, 1, MinGap(timeline), entry = "render")
       IN  /\ timeline' = [timeline EXCEPT !.tracks = r.tracks]
           /\ pc' = IF r.error = "none" THEN "fixed" ELSE "failed_autofix"
           /\ error' = r.error
    /\ before' = timeline
    /\ UNCHANGED <<entry, warnings, svars, bvars, dvars>>

(* validate_timeline and the loop over the warnings it returned *)
Validate ==
    /\ pc = "fixed"
    /\ LET r == validate_timeline(timeline)
       IN  /\ warnings' = IF r.raised # "none" THEN Unset
                          ELSE [kind |-> r.returned, items |-> r.warnings]
           /\ error' = IF r.raised # "none" THEN r.raised
                       ELSE IF r.returned = "None" THEN "TypeError"
                       ELSE "none"
           /\ pc' = IF r.raised = "none" /\ r.returned = "list"
                    THEN "validated" ELSE "failed_validate"
    /\ before' = timeline
    /\ UNCHANGED <<entry, timeline, svars, bvars, dvars>>

NextPipeline == PreprocessScenes \/ AutoFixOverlaps \/ Validate

----------------------------------------------------------------------------
(* The timelines the front end is started on *)

ProjectTicks == 12

DuckingCfg(enabled, rules_idx) ==
    "ducking" :> DictV({<<"enabled", enabled>>, <<"rules", rules_idx>>,
                        <<"mode", 1>>})
SilenceCfg(gap) == "default_silence" :> Scalar(gap)
CrossfadeCfg(duration) ==
    "scene_crossfade" :> DictV({<<"enabled", 1>>, <<"duration", duration>>})

DuckingChoices == {EmptyDict, DuckingCfg(0, 1), DuckingCfg(1, 1), DuckingCfg(1, 4)}

PlainClips == {Clip(f, s) : f \in {"a.wav", "b.wav"}, s \in 0..MaxStart}
LoopClips == {LoopClip("a.wav", s, u) : s \in 0..MaxStart, u \in {Absent, 5}}
OddClips == {Clip("missing.wav", 1), Clip("", 0), Clip("b.wav", Absent),
             LoopClip("a.wav", 2, 2)}
TrackClips == PlainClips \cup LoopClips \cup OddClips

(* One track with two or three clips, no scenes *)
ClipLists ==
    {<<c1, c2>> : c1 \in TrackClips, c2 \in TrackClips}
    \cup {<<c1, c2, c3>> : c1 \in PlainClips \cup LoopClips,
                           c2 \in PlainClips \cup LoopClips,
                           c3 \in {Clip("b.wav", s) : s \in 0..MaxStart}}

TrackTimelines ==
    {Timeline(ProjectTicks, <<Track("music", "music", cl)>>, <<>>, d @@ g) :
        cl \in ClipLists, d \in DuckingChoices,
        g \in {EmptyDict, SilenceCfg(1)}}

(* Structurally broken timelines *)
BrokenTimelines ==
    LET base == {Timeline(ProjectTicks,
                          <<Track("voice", "voice", <<c>>)>>, <<>>, d) :
                     c \in {Clip("a.wav", 0), Clip("missing.wav", 0)},
                     d \in DuckingChoices}
    IN  {[tl EXCEPT !.has_project = FALSE] : tl \in base}
        \cup {[tl EXCEPT !.duration = 0] : tl \in base}
        \cup {[tl EXCEPT !.tracks[1].has_clips = FALSE, !.tracks[1].clips = <<>>] :
                 tl \in base}

(* Timelines with scenes *)
SceneRuleChoices ==
    {EmptyDict, DuckingCfg(1, 2), "ducking" :> Scalar(0),
     "dialogue_density_label" :> Scalar(2)}

SceneClips == {SceneClip("a.wav", o, l) : o \in {0, 1}, l \in BOOLEAN}

SceneTrackLists ==
    {<<SceneTrack(id, <<c>>)>> : id \in {"music", "voice", "ghost"}, c \in SceneClips}
    \cup {<<SceneTrack("voice", <<SceneClip("b.wav", 0, FALSE)>>),
            SceneTrack(id, <<SceneClip("a.wav", 0, TRUE),
                             SceneClip("b.wav", 1, FALSE)>>)>> :
             id \in {"music", "ghost"}}

FirstScenes ==
    {Scene(s, 4, tr, ru, en) : s \in {0, 2}, tr \in SceneTrackLists,
                               ru \in SceneRuleChoices, en \in {Absent, 8}}

SecondScenes ==
    {Scene(6, 4, <<SceneTrack(id, <<SceneClip("b.wav", 0, FALSE)>>)>>,
           EmptyDict, 3) : id \in {"music", "voice"}}

SceneLists ==
    {<<s1>> : s1 \in FirstScenes}
    \cup {<<s1, s2>> : s1 \in FirstScenes, s2 \in SecondScenes}

SceneTrackSets ==
    {<<Track("music", "music", <<>>)>>,
     <<Track("voice", "voice", <<>>)>>,
     <<Track("voice", "voice", <<Clip("a.wav", 0)>>), Track("music", "music", <<>>)>>,
     <<Track("dialog", "voice", <<>>), Track("voice", "voice", <<>>)>>}

SceneTimelines ==
    {Timeline(ProjectTicks, tr, sc, st) :
        tr \in SceneTrackSets, sc \in SceneLists,
        st \in {EmptyDict, DuckingCfg(1, 1), CrossfadeCfg(1)}}

(* Two scenes on one track, the first holding a clip of 100 ms, the second *)
(* starting at the first one's start, shortly after it, or at its end      *)
CrossfadeTimelines ==
    {Timeline(2 * FileDur("d.wav"),
              <<Track("music", "music", <<>>)>>,
              <<Scene(0, FileDur("d.wav"),
                      <<SceneTrack("music", <<SceneClip("d.wav", 0, l)>>)>>,
                      EmptyDict, Absent),
                Scene(s2, FileDur("d.wav"),
                      <<SceneTrack("music", <<SceneClip("b.wav", 0, l2)>>)>>,
                      ru, Absent)>>,
              CrossfadeCfg(dur)) :
        l \in BOOLEAN, l2 \in BOOLEAN,
        s2 \in {0, 10 * TicksPerMs, FileDur("d.wav") - TicksPerMs, FileDur("d.wav")},
        ru \in {EmptyDict, CrossfadeCfg(3 * TicksPerMs)},
        dur \in {TicksPerMs, 20 * TicksPerMs}}

PipelineTimelines ==
    TrackTimelines \cup BrokenTimelines \cup SceneTimelines \cup CrossfadeTimelines

InitPipeline ==
    /\ entry \in {"render", "render_streaming"}
    /\ pc = "loaded"
    /\ timeline \in PipelineTimelines
    /\ before = timeline
    /\ error = "none"
    /\ warnings = Unset
    /\ StreamIdle
    /\ BatchIdle
    /\ NoCall

SpecPipeline == InitPipeline /\ [][NextPipeline]_vars

----------------------------------------------------------------------------
(* Claims about the front end *)

(* The end of a clip as the renderer plays it: a looping clip is tiled up  *)
(* to loop_until, or to the project duration when it has none.             *)
RenderEnd(clip, project_duration) ==
    IF clip.loop
    THEN (IF clip.loop_until # Absent THEN clip.loop_until ELSE project_duration)
    ELSE clip.start + FileDur(clip.file)

SetMax(S) == CHOOSE x \in S : \A y \in S : y <= x

(* auto_fix_overlaps walks the whole track and returns normally *)
Fixable(track) ==
    /\ track.has_clips
    /\ \A k \in 1..Len(track.clips) :
           \/ track.clips[k].start = Absent
           \/ track.clips[k].loop
           \/ FileExists(track.clips[k].file)

AdjacentPairsApart(track, project_duration, min_gap) ==
    LET order == SortedByStart(track.clips)
    IN  \A p \in 1..(Len(order) - 1) :
            track.clips[order[p + 1]].start >=
                RenderEnd(track.clips[order[p]], project_duration) + min_gap

(* C6: after auto_fix_overlaps returned, every two clips adjacent in start *)
(* order on a track satisfy next.start >= prev.end + min_gap, the end of a *)
(* looping clip being its loop_until, or the project duration when it has  *)
(* none.                                                                   *)
C6_AdjacentClipsApart ==
    pc = "fixed" =>
        \A i \in 1..Len(timeline.tracks) :
            Fixable(timeline.tracks[i]) =>
                AdjacentPairsApart(timeline.tracks[i], timeline.duration,
                                   MinGap(timeline))

(* The relation between a track before and after auto_fix_overlaps:        *)
(* walking the clips in start order, prev_end is the largest end reached   *)
(* by the clips already walked (0 at least); a clip starting before        *)
(* prev_end + min_gap is moved to exactly that point, any other clip and   *)
(* the first clip keep their start; a moved looping clip keeps its length; *)
(* nothing else changes.                                                   *)
WalkedEnd(old, new, q) == new[q].start + (AutofixEnd(old[q]) - old[q].start)

PrevEndAt(old, new, order, p) ==
    SetMax({0} \cup {WalkedEnd(old, new, order[q]) : q \in 1..(p - 1)})

ShiftedAsSpecified(old, new, min_gap) ==
    LET order == SortedByStart(old)
    IN  /\ Len(new) = Len(old)
        /\ \A k \in 1..Len(old) : old[k].start = Absent => new[k] = old[k]
        /\ Len(order) < 2 => new = old
        /\ Len(order) >= 2 =>
            \A p \in 1..Len(order) :
                LET k == order[p]
                    limit == PrevEndAt(old, new, order, p) + min_gap
                    overlaps == p > 1 /\ old[k].start < limit
                IN  /\ new[k].start = IF overlaps THEN limit ELSE old[k].start
                    /\ new[k].loop_until =
                           IF old[k].loop /\ old[k].loop_until # Absent
                           THEN old[k].loop_until + (new[k].start - old[k].start)
                           ELSE old[k].loop_until
                    /\ [new[k] EXCEPT !.start = 0, !.loop_until = 0]
                         = [old[k] EXCEPT !.start = 0, !.loop_until = 0]

(* C7: auto_fix_overlaps moves a clip only when it starts before           *)
(* prev_end + min_gap, and then to exactly prev_end + min_gap; the         *)
(* loop_until of a moved looping clip moves by the same delta; a clip that *)
(* does not overlap keeps its start.                                       *)
C7_ShiftOnlyOverlapping ==
    pc = "fixed" =>
        \A i \in 1..Len(timeline.tracks) :
            Fixable(before.tracks[i]) =>
                ShiftedAsSpecified(before.tracks[i].clips,
                                   timeline.tracks[i].clips, MinGap(timeline))

(* C7 witness: the example of the specification, starts [0, 0.5 s] with    *)
(* durations [2 s, 1 s] and min_gap 0, scaled to starts [0, 1] and         *)
(* durations [4, 2] ticks: the second clip is moved to 4; and a looping    *)
(* clip that was moved together with its loop_until.                       *)
C7_Witness ==
    /\ pc = "fixed"
    /\ MinGap(timeline) = 0
    /\ Len(timeline.tracks) = 1
    /\ before.tracks[1].clips = <<Clip("a.wav", 0), Clip("b.wav", 1)>>
    /\ timeline.tracks[1].clips = <<Clip("a.wav", 0), Clip("b.wav", 2 * TicksPerMs)>>

C7_WitnessLoop ==
    /\ pc = "fixed"
    /\ \E i \in 1..Len(timeline.tracks) :
         \E k \in 1..Len(timeline.tracks[i].clips) :
            /\ before.tracks[i].clips[k].loop
            /\ before.tracks[i].clips[k].loop_until # Absent
            /\ timeline.tracks[i].clips[k].start > before.tracks[i].clips[k].start
            /\ timeline.tracks[i].clips[k].loop_until
                   > before.tracks[i].clips[k].loop_until

(* C8: validate_timeline raises ValidationError exactly when it recorded a *)
(* fatal problem, and otherwise returns a list of warnings that the        *)
(* renderer iterates over, whether or not settings.ducking is present or   *)
(* enabled.                                                                *)
C8_RaisesOrReturnsList ==
    pc \in {"validated", "failed_validate"} =>
        IF ValidateCollect(timeline).errors # <<>>
        THEN error = "ValidationError"
        ELSE error = "none" /\ warnings.kind = "list"

(* Some scene names a track id that no track of the timeline has *)
RefsUnknownTrack(tl) ==
    \E s \in 1..Len(tl.scenes) :
        \E t \in 1..Len(tl.scenes[s].tracks) :
            tl.scenes[s].tracks[t].id \notin TrackIds(tl.tracks)

(* C9: when a scene references a track id absent from the tracks, scene    *)
(* preprocessing fails with a TimelineError, in render and in              *)
(* render_streaming.                                                       *)
C9_UnknownTrackIsTimelineError ==
    (pc \in {"preprocessed", "failed_preprocess"} /\ RefsUnknownTrack(before)) =>
        (pc = "failed_preprocess" /\ error = "TimelineError")

(* The clone the specification asks for, for one clip of one scene *)
ExpectedClone(settings, scene, clip) ==
    [clip EXCEPT
        !.start = scene.start + clip.offset,
        !.loop_until = IF clip.loop THEN scene.start + scene.duration ELSE @,
        !.has_rules = TRUE,
        !.rules = [k \in DOMAIN merge_rules(settings, scene.rules).val
                             \cup {"scene_energy"} |->
                     IF k = "scene_energy"
                     THEN Scalar(IF scene.energy = Absent THEN DefaultSceneEnergy
                                 ELSE scene.energy)
                     ELSE merge_rules(settings, scene.rules).val[k]]]

(* The scene clips that belong on the track, in the order of the scenes *)
RECURSIVE ClonesFor(_, _, _, _, _)
ClonesFor(tl, id, s, t, k) ==
    IF s > Len(tl.scenes) THEN <<>>
    ELSE IF t > Len(tl.scenes[s].tracks) THEN ClonesFor(tl, id, s + 1, 1, 1)
    ELSE IF k > Len(tl.scenes[s].tracks[t].clips) THEN ClonesFor(tl, id, s, t + 1, 1)
    ELSE (IF tl.scenes[s].tracks[t].id = id
          THEN <<ExpectedClone(tl.settings, tl.scenes[s],
                               tl.scenes[s].tracks[t].clips[k])>>
          ELSE <<>>)
         \o ClonesFor(tl, id, s, t, k + 1)

(* The timelines C10 is stated for: scenes that name only tracks of the    *)
(* timeline; scene rules that merge_rules can merge; no crossfade pass     *)
(* moving the clones afterwards.                                           *)
ExpandsCleanly(tl) ==
    /\ tl.scenes # <<>>
    /\ ~RefsUnknownTrack(tl)
    /\ \A s \in 1..Len(tl.scenes) : MergeClash(tl.settings, tl.scenes[s].rules) = {}
    /\ NestedGet(tl.settings, "scene_crossfade", "enabled", 0) = 0

(* C10: for a timeline whose scenes reference only tracks it has,          *)
(* preprocess_scenes completes and appends to each referenced track one    *)
(* clone per scene clip, with start = scene.start + offset, loop_until =   *)
(* scene.start + scene.duration if it loops, and _rules = effective rules  *)
(* plus scene_energy.                                                      *)
C10_ScenesExpanded ==
    (pc \in {"preprocessed", "failed_preprocess"} /\ ExpandsCleanly(before)) =>
        /\ pc = "preprocessed"
        /\ \A i \in 1..Len(before.tracks) :
               timeline.tracks[i].clips =
                   before.tracks[i].clips \o ClonesFor(before, before.tracks[i].id, 1, 1, 1)

----------------------------------------------------------------------------
(* TimelineRenderer.get_role_ranges: for every role key the (start, end)   *)
(* ranges of the clips of that role, in track and clip order.  A dict of   *)
(* ranges is a function from the role keys it holds.                       *)

SfxKey(semantic) ==
    CASE semantic = "impact" -> "sfx:impact"
      [] semantic = "movement" -> "sfx:movement"
      [] semantic = "ambience" -> "sfx:ambience"
      [] semantic = "interaction" -> "sfx:interaction"
      [] semantic = "texture" -> "sfx:texture"
      [] OTHER -> "sfx:bogus"

(* clip.get("semantic_role", track_semantic_role) *)
ClipSemantic(clip, track) ==
    IF clip.semantic_role # "" THEN clip.semantic_role ELSE track.semantic_role

RangeEntry(track, clip) ==
    [role |-> track.role, semantic |-> ClipSemantic(clip, track),
     file |-> clip.file, start |-> clip.start]

RECURSIVE RangeEntries(_, _)
RangeEntries(tracks, i) ==
    IF i > Len(tracks) THEN <<>>
    ELSE LET t == tracks[i]
             mine == IF t.role = "" THEN <<>>
                     ELSE [j \in 1..Len(t.clips) |-> RangeEntry(t, t.clips[j])]
         IN  mine \o RangeEntries(tracks, i + 1)

RangeLoads(e) == e.file # "" /\ e.start # Absent /\ FileExists(e.file)

RangeKeys(e) ==
    {e.role} \cup (IF e.role = "sfx" /\ e.semantic # ""
                   THEN {SfxKey(e.semantic)} ELSE {})

get_role_ranges(tracks) ==
    LET es == SelectSeq(RangeEntries(tracks, 1), RangeLoads)
        keys == UNION {RangeKeys(es[i]) : i \in 1..Len(es)}
        Of(k) == SelectSeq(es, LAMBDA e : k \in RangeKeys(e))
    IN  [k \in keys |->
            [i \in 1..Len(Of(k)) |->
                <<Of(k)[i].start, Of(k)[i].start + FileDur(Of(k)[i].file)>>]]

(* role_ranges of render and render_streaming: None (no key) unless the    *)
(* default ducking config is enabled                                       *)
RoleRanges(tl) ==
    IF Enabled(tl.settings, "ducking") THEN get_role_ranges(tl.tracks)
    ELSE NoFiles

----------------------------------------------------------------------------
(* dsp.eq_presets: preset names and the default preset of a role *)

KnownPresets == {"dialogue_clean", "dialogue_warm", "dialogue_broadcast",
                 "music_full", "music_bed", "background_soft",
                 "background_distant", "sfx_punch", "sfx_subtle"}

ROLE_DEFAULT_PRESETS(role) ==
    CASE role = "voice" -> "dialogue_clean"
      [] role = "music" -> "music_bed"
      [] role = "background" -> "background_soft"
      [] OTHER -> ""

SFX_SEMANTIC_ROLE_PRESETS(semantic) ==
    CASE semantic = "impact" -> "sfx_punch"
      [] semantic = "movement" -> "sfx_subtle"
      [] semantic = "ambience" -> "background_soft"
      [] semantic = "texture" -> "background_distant"
      [] OTHER -> ""

get_preset_for_role(role, semantic) ==
    IF role = "sfx" /\ semantic # "" /\ SFX_SEMANTIC_ROLE_PRESETS(semantic) # ""
    THEN SFX_SEMANTIC_ROLE_PRESETS(semantic)
    ELSE ROLE_DEFAULT_PRESETS(role)

(* clip.get("eq_preset") or track_eq_preset or get_preset_for_role(...) *)
ResolveEqPreset(clip, track) ==
    IF clip.eq_preset # "" THEN clip.eq_preset
    ELSE IF track.eq_preset # "" THEN track.eq_preset
    ELSE get_preset_for_role(track.role, ClipSemantic(clip, track))

(* dsp.sfx_processor.SEMANTIC_ROLE_FADE_DEFAULTS: <<fade_in_ms, fade_out_ms>> *)
get_sfx_fade_behavior(semantic) ==
    CASE semantic = "impact" -> <<0, 75>>
      [] semantic = "movement" -> <<150, 150>>
      [] semantic = "ambience" -> <<750, 750>>
      [] semantic = "interaction" -> <<250, 250>>
      [] semantic = "texture" -> <<1500, 1500>>
      [] OTHER -> <<0, 0>>

----------------------------------------------------------------------------
(* dsp.fades: the part of the canvas a fade attenuates, as the interval    *)
(* <<lo, hi>> of canvas milliseconds; canvas[a:b] clamps a and b to the    *)
(* canvas, and a fade of an empty slice changes nothing.                   *)

NoRegion == <<0, 0>>

CanvasSlice(canvas_ms, a, b) ==
    LET lo == Min(Max(a, 0), canvas_ms)
        hi == Min(Max(b, 0), canvas_ms)
    IN  IF lo < hi THEN <<lo, hi>> ELSE NoRegion

Attenuated(region) == region[1] < region[2]

apply_fade_in(canvas_ms, start_ms, fade_ms) ==
    IF fade_ms <= 0 THEN NoRegion
    ELSE CanvasSlice(canvas_ms, start_ms, start_ms + fade_ms)

apply_fade_out(canvas_ms, clip_start_ms, clip_len_ms, project_len_ms, fade_ms) ==
    LET clip_end_ms == Min(clip_start_ms + clip_len_ms, project_len_ms)
        fade == Min(fade_ms, clip_end_ms - clip_start_ms)
    IN  IF fade_ms <= 0 \/ fade <= 0 THEN NoRegion
        ELSE CanvasSlice(canvas_ms, clip_end_ms - fade, clip_end_ms)

----------------------------------------------------------------------------
(* ClipProcessor.process_clip.  What it did to one clip is a record: the   *)
(* exception that ended it ("none" when it returned), whether the EQ       *)
(* preset and the dialogue compressor were applied, the ducking rules      *)
(* that lowered the audio, the length of the audio it overlaid, the canvas *)
(* position of the overlay and the canvas intervals its fades attenuated.  *)

(* The streaming keys ChunkProcessor adds to its copy of the clip *)
NoOverride ==
    [on |-> FALSE, audio_ms |-> 0, timeline_start |-> 0, overlay_start |-> 0,
     skip_eq |-> FALSE, skip_compression |-> FALSE]

(* clip_rules.get(key, default) where default is settings.get(key) *)
RuleCfg(clip, tl, key) ==
    IF HasKey(clip.rules, key) THEN clip.rules[key]
    ELSE IF HasKey(tl.settings, key) THEN tl.settings[key]
    ELSE Scalar(0)

Truthy(val) == IF val.kind = "dict" THEN val.d # {} ELSE val.v # 0

(* Lines 239-248: the rule's "when" is this clip's own role *)
MatchesWhen(rule, role, semantic) ==
    \/ rule.when = role
    \/ IsSfxRef(rule.when) /\ role = "sfx" /\ semantic = SemanticOf(rule.when)

(* Lines 251-267: some duck target is this clip's own role *)
ShouldDuck(rule, role, semantic) ==
    \E j \in 1..Len(rule.duck) :
        \/ rule.duck[j] = role
        \/ IsSfxRef(rule.duck[j]) /\ role = "sfx"
              /\ semantic = SemanticOf(rule.duck[j])

(* Lines 271-282: what the matched rule does under the config's mode; the  *)
(* envelope reads four keys of the config and a missing key is a caught    *)
(* KeyError that leaves the audio as it was.                               *)
DuckingActs(cfg) ==
    LET mode == SubGet(cfg, "mode", 0)
    IN  \/ mode = 1 /\ {"duck_amount", "fade_down_ms", "fade_up_ms",
                        "min_pause_ms"} \subseteq SubKeys(cfg)
        \/ mode = 2 /\ "duck_amount" \in SubKeys(cfg)

(* The positions in the rule list of the rules that ducked the clip *)
DuckedBy(clip, track, tl, role_ranges) ==
    LET cfg == RuleCfg(clip, tl, "ducking")
        rules == DuckRuleList(SubGet(cfg, "rules", 0))
    IN  IF ~(Truthy(cfg) /\ cfg.kind = "dict" /\ DOMAIN role_ranges # {})
        THEN {}
        ELSE {i \in 1..Len(rules) :
                /\ MatchesWhen(rules[i], track.role, ClipSemantic(clip, track))
                /\ ShouldDuck(rules[i], track.role, ClipSemantic(clip, track))
                /\ rules[i].when \in DOMAIN role_ranges
                /\ DuckingActs(cfg)}

(* Lines 287-292 *)
Compresses(clip, track, tl) ==
    LET cfg == RuleCfg(clip, tl, "dialogue_compression")
    IN  /\ track.role = "voice"
        /\ Truthy(cfg)
        /\ SubGet(cfg, "enabled", 0) # 0

(* Lines 146-157: apply_eq_preset filters the audio unless the name is     *)
(* unknown                                                                 *)
AppliesEq(clip, track) == ResolveEqPreset(clip, track) \in KnownPresets

ClipFailure(err) ==
    [error |-> err, eq |-> FALSE, compressed |-> FALSE, ducked |-> {},
     audio_ms |-> 0, at_ms |-> 0, fade_in |-> NoRegion, fade_out |-> NoRegion]

process_clip(canvas_ms, clip, track, tl, role_ranges, override) ==
    LET loaded_ms == IF override.on THEN override.audio_ms ELSE FileMs(clip.file)
        start_sec == IF override.on THEN override.timeline_start ELSE clip.start
        overlay_sec == IF override.on THEN override.overlay_start ELSE clip.start
        at_ms == ToMs(overlay_sec)
        loop_until == IF clip.loop_until # Absent THEN clip.loop_until
                      ELSE tl.duration
        loop_ms == IF loop_until >= start_sec THEN ToMs(loop_until - start_sec)
                   ELSE 0
        tiles == clip.loop /\ loop_ms > 0
        audio_ms == IF tiles THEN loop_ms ELSE loaded_ms
        semantic == ClipSemantic(clip, track)
        sfx == IF track.role = "sfx" /\ semantic # ""
               THEN get_sfx_fade_behavior(semantic) ELSE <<0, 0>>
        in_ms == IF clip.fade_in # Absent THEN ToMs(clip.fade_in) ELSE sfx[1]
        out_ms == IF clip.fade_out # Absent THEN ToMs(clip.fade_out) ELSE sfx[2]
    IN  IF ~override.on /\ clip.file = "" THEN ClipFailure("AudioProcessingError")
        ELSE IF ~override.on /\ ~FileExists(clip.file) THEN ClipFailure("FileError")
        ELSE IF ~override.on /\ clip.start = Absent THEN ClipFailure("KeyError")
        ELSE IF tiles /\ loaded_ms = 0 THEN ClipFailure("ZeroDivisionError")
        ELSE [error |-> "none",
              eq |-> AppliesEq(clip, track),
              compressed |-> Compresses(clip, track, tl),
              ducked |-> DuckedBy(clip, track, tl, role_ranges),
              audio_ms |-> audio_ms,
              at_ms |-> at_ms,
              fade_in |-> apply_fade_in(canvas_ms, at_ms, in_ms),
              fade_out |-> apply_fade_out(canvas_ms, at_ms, audio_ms,
                                          ToMs(tl.duration), out_ms)]

----------------------------------------------------------------------------
(* streaming.ClipScheduler.get_active_clips *)

ClipSlice(clip, source_start, duration, output_start) ==
    [clip |-> clip, source_start |-> source_start, duration |-> duration,
     output_start |-> output_start]

(* float(clip.get("start", 0.0)) *)
StartOr0(clip) == IF clip.start = Absent THEN 0 ELSE clip.start

(* The while loop of _add_looped_slices *)
RECURSIVE LoopWalk(_, _, _, _)
LoopWalk(clip, duration, current_pos, window_end) ==
    IF current_pos >= window_end THEN <<>>
    ELSE LET offset_in_loop == (current_pos - StartOr0(clip)) % duration
             slice_end == Min(current_pos + (duration - offset_in_loop), window_end)
         IN  <<ClipSlice(clip, offset_in_loop, slice_end - current_pos, current_pos)>>
             \o LoopWalk(clip, duration, slice_end, window_end)

_add_looped_slices(clip, project_duration, chunk_from, chunk_to) ==
    LET duration == FileDur(clip.file)
        loop_until == IF clip.loop_until # Absent THEN clip.loop_until
                      ELSE project_duration
        window_start == Max(chunk_from, StartOr0(clip))
        window_end == Min(chunk_to, loop_until)
    IN  IF duration <= 0 \/ window_end <= window_start THEN <<>>
        ELSE LoopWalk(clip, duration, window_start, window_end)

(* get_active_clips reading a non-looping clip from the output position *)
SlicesOfClip_from_output(clip, project_duration, chunk_from, chunk_to) ==
    LET start == StartOr0(clip)
        end == start + FileDur(clip.file)
        overlap_start == Max(start, chunk_from)
        overlap_end == Min(end, chunk_to)
    IN  IF clip.file = "" THEN <<>>
        ELSE IF clip.loop
        THEN _add_looped_slices(clip, project_duration, chunk_from, chunk_to)
        ELSE IF end <= chunk_from \/ start >= chunk_to
                  \/ overlap_end - overlap_start <= 0 THEN <<>>
        ELSE <<ClipSlice(clip, overlap_start,
                         overlap_end - overlap_start, overlap_start)>>

(* The slices of one clip that overlap the chunk *)
SlicesOfClip(clip, project_duration, chunk_from, chunk_to) ==
    LET start == StartOr0(clip)
        end == start + FileDur(clip.file)
        overlap_start == Max(start, chunk_from)
        overlap_end == Min(end, chunk_to)
    IN  IF clip.file = "" THEN <<>>
        ELSE IF clip.loop
        THEN _add_looped_slices(clip, project_duration, chunk_from, chunk_to)
        ELSE IF end <= chunk_from \/ start >= chunk_to
                  \/ overlap_end - overlap_start <= 0 THEN <<>>
        ELSE <<ClipSlice(clip, overlap_start - start,
                         overlap_end - overlap_start, overlap_start)>>

RECURSIVE SlicesOfClips(_, _, _, _, _)
SlicesOfClips(clips, i, project_duration, chunk_from, chunk_to) ==
    IF i > Len(clips) THEN <<>>
    ELSE SlicesOfClip(clips[i], project_duration, chunk_from, chunk_to)
         \o SlicesOfClips(clips, i + 1, project_duration, chunk_from, chunk_to)

(* active[track_id]: the slices of every track registered under the id *)
RECURSIVE ActiveSlices(_, _, _, _, _)
ActiveSlices(tl, id, i, chunk_from, chunk_to) ==
    IF i > Len(tl.tracks) THEN <<>>
    ELSE (IF tl.tracks[i].id = id
          THEN SlicesOfClips(tl.tracks[i].clips, 1, tl.duration,
                             chunk_from, chunk_to)
          ELSE <<>>)
         \o ActiveSlices(tl, id, i + 1, chunk_from, chunk_to)

get_active_clips(tl, chunk_from, chunk_to) ==
    LET ids == {id \in TrackIds(tl.tracks) :
                   ActiveSlices(tl, id, 1, chunk_from, chunk_to) # <<>>}
    IN  [id \in ids |-> ActiveSlices(tl, id, 1, chunk_from, chunk_to)]

----------------------------------------------------------------------------
(* streaming.ChunkProcessor *)

(* sorted(track_buffers.keys()): the place of an id in string order *)
IdRank(id) ==
    CASE id = "dialog" -> 1
      [] id = "ghost" -> 2
      [] id = "music" -> 3
      [] id = "sfx" -> 4
      [] id = "voice" -> 5
      [] OTHER -> 6

RECURSIVE SortedIds(_)
SortedIds(ids) ==
    IF ids = {} THEN <<>>
    ELSE LET first == CHOOSE a \in ids : \A b \in ids : IdRank(a) <= IdRank(b)
         IN  <<first>> \o SortedIds(ids \ {first})

(* Lines 136-140 *)
TrackStreamingCompression(track, tl) ==
    /\ track.role = "voice"
    /\ Enabled(tl.settings, "dialogue_compression")

(* len() of the audio ChunkLoader.get_chunk decodes for a slice *)
SliceMs(slice) == ToMs(slice.duration)

(* Line 172; clips carry no id, so the file path stands in the key *)
ChainKey(track, slice) ==
    <<track.id, slice.clip.file, slice.clip.start, ResolveEqPreset(slice.clip, track)>>

(* Lines 171-178: the slice runs through a stateful EQ chain, which exists *)
(* and is not empty exactly for a known preset                             *)
StreamsEq(track, slice) == ResolveEqPreset(slice.clip, track) \in KnownPresets

(* Lines 189-209: one slice of the loop of process_track *)
ProcessSlice(track, slice, tl, role_ranges, chunk_from, chunk_ms) ==
    LET clip_copy == [on |-> TRUE,
                      audio_ms |-> SliceMs(slice),
                      timeline_start |-> slice.output_start,
                      overlay_start |-> slice.output_start - chunk_from,
                      skip_eq |-> StreamsEq(track, slice),
                      skip_compression |-> TrackStreamingCompression(track, tl)]
    IN  [slice |-> slice,
         stream_eq |-> StreamsEq(track, slice),
         done |-> process_clip(chunk_ms, slice.clip, track, tl, role_ranges,
                               clip_copy)]

ChunkProcessor_process_track(track, slices, tl, role_ranges, chunk_from, chunk_ms) ==
    [id |-> track.id,
     role |-> track.role,
     slices |-> [i \in 1..Len(slices) |->
                    ProcessSlice(track, slices[i], tl, role_ranges,
                                 chunk_from, chunk_ms)],
     role_loudness |-> track.role # "sfx",
     stream_compressed |-> TrackStreamingCompression(track, tl)]

(* The chain keys, loaders and compressors the chunk touches *)
SliceRefs(tl, active) ==
    UNION {{<<id, i>> : i \in 1..Len(active[id])} : id \in DOMAIN active}

TrackOf(tl, id) == tl.tracks[TrackIndex(tl.tracks, id)]

ChainedRefs(tl, active) ==
    {r \in SliceRefs(tl, active) : StreamsEq(TrackOf(tl, r[1]), active[r[1]][r[2]])}

AdvanceProcessor(proc, tl, active, chunk_from) ==
    LET refs == SliceRefs(tl, active)
        keyOf(r) == ChainKey(TrackOf(tl, r[1]), active[r[1]][r[2]])
        keys == {keyOf(r) : r \in ChainedRefs(tl, active)}
        fed == {id \in DOMAIN active : TrackStreamingCompression(TrackOf(tl, id), tl)}
    IN  [loaders |-> proc.loaders \cup {active[r[1]][r[2]].clip.file : r \in refs},
         eq_chains |->
            [k \in DOMAIN proc.eq_chains \cup keys |->
                (IF k \in DOMAIN proc.eq_chains THEN proc.eq_chains[k] ELSE 0)
                + Cardinality({r \in ChainedRefs(tl, active) : keyOf(r) = k})],
         compressors |->
            [id \in DOMAIN proc.compressors \cup fed |->
                IF id \in fed
                THEN Append(IF id \in DOMAIN proc.compressors
                            THEN proc.compressors[id] ELSE <<>>, chunk_from)
                ELSE proc.compressors[id]]]

(* process_chunk: the chunk length in ms, the track buffers in mix order   *)
(* and the processor state it leaves                                       *)
process_chunk(proc, tl, role_ranges, chunk_from, chunk_to) ==
    LET chunk_ms == ToMs(Max(0, chunk_to - chunk_from))
        active == get_active_clips(tl, chunk_from, chunk_to)
        order == SortedIds(DOMAIN active)
    IN  IF chunk_ms <= 0
        THEN [ms |-> 0, tracks |-> <<>>, processor |-> proc]
        ELSE [ms |-> chunk_ms,
              tracks |-> [i \in 1..Len(order) |->
                            ChunkProcessor_process_track(
                                TrackOf(tl, order[i]), active[order[i]], tl,
                                role_ranges, chunk_from, chunk_ms)],
              processor |-> AdvanceProcessor(proc, tl, active, chunk_from)]

----------------------------------------------------------------------------
(* TimelineRenderer.render_streaming after the front end: the passes it    *)
(* runs and the chunk loop of render_pass.                                 *)

(* RenderConfig.from_timeline_settings *)
ChunkSizeSec(tl) ==
    NestedGet(tl.settings, "streaming", "chunk_size_sec", 1000 * TicksPerMs)
TwoPassLufs(tl) == NestedGet(tl.settings, "streaming", "two_pass_lufs", 1) # 0
NormalizePeak(tl) == ScalarGet(tl.settings, "normalize", 0) # 0
MasterFadeMs(tl) ==
    Min(ToMs(NestedGet(tl.settings, "master_fade_out", "duration",
                       10000 * TicksPerMs)),
        ToMs(tl.duration))

(* Lines 393-438: the render_pass calls of one run, in order *)
PassPlan(tl) ==
    IF NormalizePeak(tl) THEN <<"peak", "final">>
    ELSE IF Enabled(tl.settings, "loudness") /\ TwoPassLufs(tl)
    THEN <<"measure", "final">>
    ELSE IF Enabled(tl.settings, "loudness") THEN <<"rolling">>
    ELSE <<"plain">>

PassFile(tl, n) ==
    IF Len(PassPlan(tl)) = 2 /\ n = 1 THEN "output.tmp.wav" ELSE "output"

(* Lines 329-338: a new writer opens (and truncates) the file of the pass, *)
(* the processor forgets its streaming state                               *)
OpenPass ==
    /\ entry = "render_streaming"
    /\ pc \in {"validated", "pass_closed"}
    /\ pass_no < Len(PassPlan(timeline))
    /\ pass_no' = pass_no + 1
    /\ writer' = [file |-> PassFile(timeline, pass_no + 1), open |-> TRUE,
                   opens |-> 1, closes |-> 0]
    /\ files' = [f \in DOMAIN files \cup {PassFile(timeline, pass_no + 1)} |->
                    IF f = PassFile(timeline, pass_no + 1) THEN <<>> ELSE files[f]]
    /\ processor' = FreshProcessor
    /\ chunk_start' = 0
    /\ pc' = "chunk_loop"
    /\ UNCHANGED <<entry, timeline, before, error, warnings, estimator, bvars, dvars>>

(* Lines 372-386: the canvas interval of the chunk the master fade-out     *)
(* attenuates                                                              *)
MasterFade(tl, chunk_from, chunk_ms) ==
    IF Enabled(tl.settings, "master_fade_out")
    THEN apply_fade_out(chunk_ms, ToMs(chunk_from), chunk_ms,
                        ToMs(tl.duration), MasterFadeMs(tl))
    ELSE NoRegion

(* StreamWriter.write_segment on the frames written so far *)
write_segment(w, frames, segment) ==
    IF ~w.open
    THEN [error |-> "RuntimeError", frames |-> frames]
    ELSE [error |-> "none", frames |-> Append(frames, segment)]

(* StreamWriter.close *)
close(w) ==
    IF w.open THEN [w EXCEPT !.open = FALSE, !.closes = @ + 1] ELSE w

(* A "curve" setting is a code: the index of a string in CurveStrings, or  *)
(* a larger number for a JSON value that is no string.                     *)
CurveStrings == <<"linear", "logarithmic", "exponential", "smooth">>

(* FadeCurve.from_string: None and unknown names give LINEAR; a value      *)
(* without lower() raises AttributeError                                   *)
from_string(curve) ==
    IF curve = Absent THEN [error |-> "none", curve |-> "linear"]
    ELSE IF curve \notin 1..Len(CurveStrings)
         THEN [error |-> "AttributeError", curve |-> ""]
    ELSE IF CurveStrings[curve] \in {"linear", "logarithmic", "exponential"}
         THEN [error |-> "none", curve |-> CurveStrings[curve]]
    ELSE [error |-> "none", curve |-> "linear"]

(* Lines 372-377: what the master fade-out block raises before it fades *)
MasterFadeFailure(tl) ==
    IF Enabled(tl.settings, "master_fade_out")
    THEN from_string(NestedGet(tl.settings, "master_fade_out", "curve", Absent)).error
    ELSE "none"

(* The estimator fed a chunk whether or not it holds samples *)
StreamingLoudnessEstimator_process_chunk_unguarded(measurements, samples_ms, loudness) ==
    Append(measurements, loudness)

(* StreamingLoudnessEstimator.process_chunk: nothing is measured on a      *)
(* chunk without samples. A measurement is named by the chunk it was taken *)
(* on.                                                                     *)
StreamingLoudnessEstimator_process_chunk(measurements, samples_ms, loudness) ==
    IF samples_ms = 0 THEN measurements
    ELSE Append(measurements, loudness)

(* No run over chunks that advance writes more segments than the project  *)
(* has ticks                                                               *)
MaxSegments(tl) == tl.duration + 1

(* Lines 339-389: one turn of the while loop. An exception of a step that  *)
(* render_pass does not guard leaves render_pass and render_streaming.     *)
RenderChunk ==
    /\ pc = "chunk_loop"
    /\ chunk_start < timeline.duration
    /\ Len(files[writer.file]) < MaxSegments(timeline)
    /\ LET chunk_end == Min(timeline.duration, chunk_start + ChunkSizeSec(timeline))
           chunk_audio == process_chunk(processor, timeline, RoleRanges(timeline),
                                        chunk_start, chunk_end)
           kind == PassPlan(timeline)[pass_no]
           segment == [start |-> chunk_start,
                       end |-> chunk_end,
                       ms |-> chunk_audio.ms,
                       tracks |-> chunk_audio.tracks,
                       gain |-> kind,
                       rolling_from |-> IF kind = "rolling" THEN estimator ELSE <<>>,
                       fade |-> MasterFade(timeline, chunk_start, chunk_audio.ms)]
           raised == MasterFadeFailure(timeline)
           written == write_segment(writer, files[writer.file], segment)
       IN  /\ processor' = chunk_audio.processor
           /\ estimator' = IF kind = "rolling"
                           THEN StreamingLoudnessEstimator_process_chunk(
                                    estimator, chunk_audio.ms, chunk_start)
                           ELSE estimator
           /\ IF raised # "none"
              THEN /\ pc' = "aborted"
                   /\ error' = raised
                   /\ UNCHANGED <<files, chunk_start>>
              ELSE IF written.error # "none"
              THEN /\ pc' = "aborted"
                   /\ error' = written.error
                   /\ UNCHANGED <<files, chunk_start>>
              ELSE /\ files' = [files EXCEPT ![writer.file] = written.frames]
                   /\ chunk_start' = chunk_end
                   /\ UNCHANGED <<pc, error>>
    /\ UNCHANGED <<entry, timeline, before, warnings, pass_no,
                   writer, bvars, dvars>>

(* Line 391 and what follows the pass: the writer closes; after the last   *)
(* of two passes the temporary file is removed                             *)
ClosePass ==
    /\ pc = "chunk_loop"
    /\ chunk_start >= timeline.duration
    /\ writer' = close(writer)
    /\ pc' = IF pass_no < Len(PassPlan(timeline)) THEN "pass_closed" ELSE "done"
    /\ files' = IF pass_no = 2
                THEN [f \in DOMAIN files \ {"output.tmp.wav"} |-> files[f]]
                ELSE files
    /\ UNCHANGED <<entry, timeline, before, error, warnings, pass_no,
                   chunk_start, processor, estimator, bvars,
                   dvars>>

NextStream == OpenPass \/ RenderChunk \/ ClosePass

----------------------------------------------------------------------------
(* TimelineRenderer.render after the front end: the loop over the tracks   *)

(* renderer.TrackMixer.process_track: every clip goes through process_clip *)
(* on a buffer as long as the project; a clip that raises is skipped.      *)
TrackMixer_process_track(track, tl, role_ranges) ==
    [id |-> track.id,
     role |-> track.role,
     clips |-> [i \in 1..Len(track.clips) |->
                   process_clip(ToMs(tl.duration), track.clips[i], track, tl,
                                role_ranges, NoOverride)],
     role_loudness |-> track.role # "sfx"]

(* Lines 194-222: one turn of the loop, the buffer overlaid on the canvas *)
MixTrack ==
    /\ entry = "render"
    /\ pc = "validated"
    /\ track_no < Len(timeline.tracks)
    /\ track_no' = track_no + 1
    /\ canvas' = Append(canvas,
                        TrackMixer_process_track(timeline.tracks[track_no + 1],
                                                 timeline, RoleRanges(timeline)))
    /\ UNCHANGED <<entry, pc, timeline, before, error, warnings, svars, dvars>>

NextBatch == MixTrack

----------------------------------------------------------------------------
(* The timelines the back ends are started on: what the front end lets     *)
(* through, so every one has the ducking config enabled, existing files    *)
(* and clips that are sorted and apart.                                    *)

MaxChunkTicks == 4

FullDucking(rules_idx, mode) ==
    "ducking" :> DictV({<<"enabled", 1>>, <<"rules", rules_idx>>,
                        <<"mode", mode>>, <<"duck_amount", -12>>,
                        <<"fade_down_ms", 1>>, <<"fade_up_ms", 1>>,
                        <<"min_pause_ms", 1>>})
StreamingCfg(chunk, two_pass) ==
    "streaming" :> DictV({<<"enabled", 1>>, <<"chunk_size_sec", chunk>>,
                          <<"two_pass_lufs", two_pass>>})
MasterFadeCfg(duration) ==
    "master_fade_out" :> DictV({<<"enabled", 1>>, <<"duration", duration>>})
MasterFadeCurveCfg(duration, curve) ==
    "master_fade_out" :> DictV({<<"enabled", 1>>, <<"duration", duration>>,
                                <<"curve", curve>>})
CompressionCfg == "dialogue_compression" :> DictV({<<"enabled", 1>>})
LoudnessCfg == "loudness" :> DictV({<<"enabled", 1>>})

FadedClip(file, start, fade) ==
    [Clip(file, start) EXCEPT !.fade_in = fade, !.fade_out = fade]

VoiceTracks ==
    {<<Track("voice", "voice", <<c>>)>> :
        c \in {Clip("c.wav", s) : s \in 0..MaxStart}
              \cup {FadedClip("c.wav", s, TicksPerMs) : s \in 0..MaxStart}}

MusicTracks ==
    {<<Track("music", "music", <<c>>)>> :
        c \in {LoopClip("a.wav", 0, Absent), LoopClip("a.wav", 1, 9),
               FadedClip("c.wav", 2, 2 * TicksPerMs), Clip("b.wav", 5)}}

SfxTracks ==
    {<<[Track("sfx", "sfx", <<Clip("b.wav", s)>>) EXCEPT !.semantic_role = sem]>> :
        s \in {1, 6}, sem \in {"impact", "interaction"}}

BackEndTracks ==
    VoiceTracks
    \cup {m \o v : m \in MusicTracks, v \in VoiceTracks}
    \cup {v \o s \o m : v \in VoiceTracks, s \in SfxTracks, m \in MusicTracks}

StreamSettings ==
    {FullDucking(1, 1) @@ StreamingCfg(c, 1) @@ f @@ k :
        c \in 0..MaxChunkTicks,
        f \in {EmptyDict, MasterFadeCfg(2 * TicksPerMs)}
              \cup {MasterFadeCurveCfg(2 * TicksPerMs, curve) :
                       curve \in 1..(Len(CurveStrings) + 1)},
        k \in {EmptyDict, CompressionCfg}}
    \cup {FullDucking(1, 1) @@ StreamingCfg(2 * TicksPerMs, two) @@ CompressionCfg
          @@ MasterFadeCfg(10000 * TicksPerMs) @@ l :
             two \in {0, 1},
             l \in {LoudnessCfg, "normalize" :> Scalar(1)}}

(* A project three times as long, cut into chunks of every size *)
LongTimelines ==
    {Timeline(3 * ProjectTicks, tr, <<>>, FullDucking(1, 1) @@ StreamingCfg(c, 1)) :
        tr \in {<<Track("voice", "voice", <<Clip("c.wav", 0)>>)>>,
                <<Track("music", "music", <<LoopClip("a.wav", 0, Absent)>>)>>,
                <<Track("music", "music", <<LoopClip("b.wav", 0, Absent)>>)>>},
        c \in 1..MaxChunkTicks}

(* Single-pass rolling loudness on a project whose last chunk is shorter   *)
(* than a millisecond                                                      *)
RollingTimelines ==
    {Timeline(ProjectTicks + 1, <<Track("voice", "voice", <<Clip("c.wav", 0)>>)>>,
              <<>>, FullDucking(1, 1) @@ StreamingCfg(c, 0) @@ LoudnessCfg) :
        c \in 1..MaxChunkTicks}

StreamTimelines ==
    {Timeline(ProjectTicks, tr, <<>>, st) :
        tr \in BackEndTracks, st \in StreamSettings}
    \cup LongTimelines
    \cup RollingTimelines

InitStream ==
    /\ entry = "render_streaming"
    /\ pc = "validated"
    /\ timeline \in StreamTimelines
    /\ before = timeline
    /\ error = "none"
    /\ warnings = [kind |-> "list", items |-> validate_timeline(timeline).warnings]
    /\ StreamIdle
    /\ BatchIdle
    /\ NoCall

SpecStream == InitStream /\ [][NextStream]_vars

BatchSettings ==
    {FullDucking(r, m) @@ k :
        r \in {1, 2, 3, 5}, m \in {1, 2}, k \in {EmptyDict, CompressionCfg}}

BatchTimelines ==
    {Timeline(ProjectTicks, tr, <<>>, st) :
        tr \in BackEndTracks, st \in BatchSettings}

InitBatch ==
    /\ entry = "render"
    /\ pc = "validated"
    /\ timeline \in BatchTimelines
    /\ before = timeline
    /\ error = "none"
    /\ warnings = [kind |-> "list", items |-> validate_timeline(timeline).warnings]
    /\ StreamIdle
    /\ BatchIdle
    /\ NoCall

SpecBatch == InitBatch /\ [][NextBatch]_vars

----------------------------------------------------------------------------
(* Properties of the back ends *)

RECURSIVE SumMs(_)
SumMs(segments) ==
    IF segments = <<>> THEN 0
    ELSE Head(segments).ms + SumMs(Tail(segments))

(* Every slice a pass has processed and written, with its segment and its  *)
(* track buffer                                                            *)
WrittenSlices ==
    UNION {UNION {UNION {
        {[segment |-> files[f][n], track |-> files[f][n].tracks[t],
          result |-> files[f][n].tracks[t].slices[i]] :
            i \in 1..Len(files[f][n].tracks[t].slices)} :
        t \in 1..Len(files[f][n].tracks)} :
        n \in 1..Len(files[f])} :
        f \in DOMAIN files}

WrittenSegments == UNION {{files[f][n] : n \in 1..Len(files[f])} : f \in DOMAIN files}

(* The end of a clip on the timeline *)
ClipEnd(clip, tl) ==
    IF clip.loop
    THEN (IF clip.loop_until # Absent THEN clip.loop_until ELSE tl.duration)
    ELSE StartOr0(clip) + FileDur(clip.file)

(* A canvas interval of a segment as an interval of project time, in ticks *)
OnTimeline(segment, region) ==
    <<segment.start + region[1] * TicksPerMs, segment.start + region[2] * TicksPerMs>>

Within(region, lo, hi) == lo <= region[1] /\ region[2] <= hi

(* C1: when render_streaming has ended, the length of its output, the sum  *)
(* of the lengths of the chunks written, is within 5 ms of the batch       *)
(* output length int(D * 1000).                                            *)
C1_StreamLengthWithin5Ms ==
    pc = "done" =>
        Abs(SumMs(files["output"]) - ToMs(timeline.duration)) <= 5

(* C2: a fade-in attenuates only inside [clip.start, clip.start + fade)    *)
(* and a fade-out only inside the last fade interval before the clip's     *)
(* end, whichever chunk the slice lies in.                                 *)
C2_FadesOnlyAtClipEnds ==
    \A w \in WrittenSlices :
        LET clip == w.result.slice.clip
            done == w.result.done
        IN  /\ Attenuated(done.fade_in) =>
                  Within(OnTimeline(w.segment, done.fade_in),
                         StartOr0(clip), StartOr0(clip) + clip.fade_in)
            /\ Attenuated(done.fade_out) =>
                  Within(OnTimeline(w.segment, done.fade_out),
                         ClipEnd(clip, timeline) - clip.fade_out,
                         ClipEnd(clip, timeline))

(* C3: the master fade-out attenuates a chunk exactly when the chunk       *)
(* overlaps the final interval [duration - fade, duration).                *)
C3_MasterFadeOnlyOnTail ==
    \A segment \in WrittenSegments :
        segment.ms > 0 =>
            (Attenuated(segment.fade) <=>
                /\ Enabled(timeline.settings, "master_fade_out")
                /\ segment.end > timeline.duration
                                 - MasterFadeMs(timeline) * TicksPerMs)

(* C4: a slice that went through the stateful EQ chain gets no EQ preset   *)
(* from process_clip, and a slice of a track routed through the streaming  *)
(* compressor gets no dialogue compression from process_clip.              *)
C4_EqAndCompressionOnce ==
    \A w \in WrittenSlices :
        w.result.done.error = "none" =>
            /\ w.result.stream_eq => ~w.result.done.eq
            /\ w.track.stream_compressed => ~w.result.done.compressed

(* C5: under a rule {when: W, duck: [.., R, ..]} with W # R and a range    *)
(* for W, every clip processed on a track of mix role R is ducked.         *)
C5_TargetRoleIsDucked ==
    LET rules == DuckRuleList(NestedGet(timeline.settings, "ducking", "rules", 0))
    IN  \A i \in 1..Len(rules) : \A j \in 1..Len(rules[i].duck) :
            (/\ Enabled(timeline.settings, "ducking")
             /\ rules[i].when # rules[i].duck[j]
             /\ rules[i].when \in DOMAIN RoleRanges(timeline))
            => \A t \in 1..Len(canvas) :
                  canvas[t].role = rules[i].duck[j] =>
                      \A c \in 1..Len(canvas[t].clips) :
                          canvas[t].clips[c].error = "none" =>
                              canvas[t].clips[c].ducked # {}

----------------------------------------------------------------------------
(* Properties of the scene crossfades *)

(* The tracks with the scene clones appended, before any crossfade *)
Expanded(tl) ==
    ExpandScenes([i \in 1..Len(tl.tracks) |->
                     IF tl.tracks[i].has_clips THEN tl.tracks[i]
                     ELSE [tl.tracks[i] EXCEPT !.has_clips = TRUE, !.clips = <<>>]],
                 tl.scenes, 1, tl.settings).tracks

CrossfadeOn(tl) ==
    /\ tl.scenes # <<>>
    /\ NestedGet(tl.settings, "scene_crossfade", "enabled", 0) # 0

(* The first clip's end is within the tolerance of the second clip's start *)
TouchesEnd(a, b) ==
    Abs((IF a.loop THEN a.loop_until ELSE a.start + FileDur(a.file)) - b.start)
        < CrossfadeToleranceMs * TicksPerMs

(* The pair a, b of pre went through the injection *)
Crossfaded(pre, post, ia, ib, default_duration) ==
    LET duration == NestedGet(pre[ib].rules, "scene_crossfade", "duration",
                              default_duration)
    IN  /\ post[ia].fade_out = Max(FadeOr0(pre[ia].fade_out), duration)
        /\ post[ib].fade_in = Max(FadeOr0(pre[ib].fade_in), duration)
        /\ post[ib].start = Max(pre[ib].start - duration, 0)

(* C11: with scene_crossfade enabled, on a track whose clips are two scene *)
(* clones, the crossfade is injected exactly when the first clone's end    *)
(* (start + source duration, or loop_until when it loops) is within 50 ms  *)
(* of the second clone's start.                                            *)
C11_CrossfadeWhenTouching ==
    (pc = "preprocessed" /\ CrossfadeOn(before)) =>
        \A t \in 1..Len(timeline.tracks) :
            LET pre == Expanded(before)[t].clips
                post == timeline.tracks[t].clips
                order == SortedByStart(pre)
            IN  (/\ Len(pre) = 2
                 /\ Len(order) = 2
                 /\ pre[1].has_rules /\ pre[2].has_rules)
                => (Crossfaded(pre, post, order[1], order[2],
                               NestedGet(before.settings, "scene_crossfade",
                                         "duration",
                                         DefaultCrossfadeMs * TicksPerMs))
                    <=> TouchesEnd(pre[order[1]], pre[order[2]]))

----------------------------------------------------------------------------
(* Properties of merge_rules *)

(* The merge as specified: the scene's value on the scene's keys, the      *)
(* global value elsewhere, and where both hold a dict the union of their   *)
(* entries with the scene's entries winning                                *)
MergedAsSpecified(global_rules, scene_rules, merged) ==
    /\ merged.error = "none"
    /\ DOMAIN merged.val = DOMAIN global_rules \cup DOMAIN scene_rules
    /\ \A k \in DOMAIN merged.val :
          IF k \notin DOMAIN scene_rules THEN merged.val[k] = global_rules[k]
          ELSE IF k \in DOMAIN global_rules /\ global_rules[k].kind = "dict"
                  /\ scene_rules[k].kind = "dict"
          THEN /\ merged.val[k].kind = "dict"
               /\ merged.val[k].d =
                     scene_rules[k].d
                     \cup {p \in global_rules[k].d :
                              \A q \in scene_rules[k].d : q[1] # p[1]}
          ELSE merged.val[k] = scene_rules[k]

(* C12: the rules merge_rules computes for the first scene are the global  *)
(* settings overridden by the scene's rules as specified, also when the    *)
(* scene puts a non-dict value on a dict-valued global key.                *)
C12_SceneRulesMerged ==
    (pc \in {"preprocessed", "failed_preprocess"} /\ before.scenes # <<>>) =>
        MergedAsSpecified(before.settings, before.scenes[1].rules,
                          merge_rules(before.settings, before.scenes[1].rules))

-----------------------------------------------------------------------------
(* Library functions called on their own: args holds the call, ret its     *)
(* outcome; no render is in progress.                                      *)

NoRender ==
    /\ entry = "none"
    /\ pc = "idle"
    /\ timeline = Timeline(0, <<>>, <<>>, EmptyDict)
    /\ before = timeline
    /\ error = "none"
    /\ warnings = Unset
    /\ StreamIdle
    /\ BatchIdle

-----------------------------------------------------------------------------
(* utils.ranges.merge_ranges: a range is <<start, end>> in ticks *)

(* sorted(ranges, key=lambda r: r[0]) is stable *)
RECURSIVE InsertRange(_, _)
InsertRange(sorted, r) ==
    IF sorted = <<>> THEN <<r>>
    ELSE IF sorted[Len(sorted)][1] <= r[1] THEN Append(sorted, r)
    ELSE Append(InsertRange(SubSeq(sorted, 1, Len(sorted) - 1), r),
                sorted[Len(sorted)])

RECURSIVE SortRanges(_, _)
SortRanges(ranges, n) ==
    IF n = 0 THEN <<>> ELSE InsertRange(SortRanges(ranges, n - 1), ranges[n])

(* The loop body with merged[-1][1] = end instead of max(last_end, end) *)
MergeStepKeepEnd(merged, r, min_gap_ms) ==
    LET last == merged[Len(merged)] IN
    IF r[1] - last[2] <= min_gap_ms * TicksPerMs
    THEN [merged EXCEPT ![Len(merged)] = <<last[1], r[2]>>]
    ELSE Append(merged, r)

(* One turn of the loop: gap_ms = (start - last_end) * 1000 *)
MergeStep(merged, r, min_gap_ms) ==
    LET last == merged[Len(merged)] IN
    IF r[1] - last[2] <= min_gap_ms * TicksPerMs
    THEN [merged EXCEPT ![Len(merged)] = <<last[1], Max(last[2], r[2])>>]
    ELSE Append(merged, r)

RECURSIVE MergeWalk(_, _, _)
MergeWalk(sorted, n, min_gap_ms) ==
    IF n = 1 THEN <<sorted[1]>>
    ELSE MergeStep(MergeWalk(sorted, n - 1, min_gap_ms), sorted[n], min_gap_ms)

merge_ranges(ranges, min_gap_ms) ==
    IF ranges = <<>> THEN <<>>
    ELSE MergeWalk(SortRanges(ranges, Len(ranges)), Len(ranges), min_gap_ms)

MergeRanges ==
    /\ args # <<>>
    /\ args.fn = "merge_ranges"
    /\ ret = <<>>
    /\ ret' = [val |-> merge_ranges(args.ranges, args.min_gap_ms)]
    /\ UNCHANGED <<args, pvars, svars, bvars>>

MaxRangeTicks == 4

RangePairs == (0..MaxRangeTicks) \X (0..MaxRangeTicks)

RangeLists ==
    {<<>>} \cup {<<a>> : a \in RangePairs}
           \cup {<<a, b>> : a \in RangePairs, b \in RangePairs}
           \cup {<<a, b, c>> : a \in RangePairs, b \in RangePairs, c \in RangePairs}

(* The call of tests/test_utils/test_ranges.py *)
TestRanges ==
    <<<<0, 1000 * TicksPerMs>>, <<1010 * TicksPerMs, 2000 * TicksPerMs>>,
      <<3000 * TicksPerMs, 4000 * TicksPerMs>>>>

MergeCalls ==
    {[fn |-> "merge_ranges", ranges |-> r, min_gap_ms |-> g] :
        r \in RangeLists, g \in {-1, 0, 1}}
    \cup {[fn |-> "merge_ranges", ranges |-> TestRanges, min_gap_ms |-> 20]}


-----------------------------------------------------------------------------
(* Claims about merge_ranges *)

Merged == args # <<>> /\ args.fn = "merge_ranges" /\ ret # <<>>

Holds(out, r) == out[1] <= r[1] /\ r[2] <= out[2]

(* Two input ranges overlap or lie at most the gap apart *)
Near(a, b, min_gap_ms) ==
    /\ b[1] - a[2] <= min_gap_ms * TicksPerMs
    /\ a[1] - b[2] <= min_gap_ms * TicksPerMs

(* The inputs reachable from the inputs in S along a chain of Near steps *)
RECURSIVE Chain(_, _, _, _)
Chain(S, ranges, min_gap_ms, n) ==
    IF n = 0 THEN S
    ELSE Chain(S \cup {j \in 1..Len(ranges) :
                          \E i \in S : Near(ranges[i], ranges[j], min_gap_ms)},
               ranges, min_gap_ms, n - 1)

MergedAsClaimed(ranges, min_gap_ms, out) ==
    /\ \A i \in 1..(Len(out) - 1) :
          /\ out[i][1] <= out[i + 1][1]
          /\ out[i + 1][1] - out[i][2] > min_gap_ms * TicksPerMs
    /\ \A k \in 1..Len(ranges) :
          Cardinality({i \in 1..Len(out) : Holds(out[i], ranges[k])}) = 1
    /\ \A j, k \in 1..Len(ranges) :
          (\E i \in 1..Len(out) : Holds(out[i], ranges[j]) /\ Holds(out[i], ranges[k]))
              => k \in Chain({j}, ranges, min_gap_ms, Len(ranges))
    /\ (ranges = TestRanges /\ min_gap_ms = 20) =>
          out = <<<<0, 2000 * TicksPerMs>>, <<3000 * TicksPerMs, 4000 * TicksPerMs>>>>

WellFormed(ranges, min_gap_ms) ==
    /\ min_gap_ms >= 0
    /\ \A k \in 1..Len(ranges) : ranges[k][1] <= ranges[k][2]

(* C13: for ranges with start <= end and a non-negative min_gap_ms,        *)
(* merge_ranges returns ranges sorted by start, consecutive output ranges  *)
(* lie more than min_gap_ms apart, every input range is contained in       *)
(* exactly one output range, and two inputs share an output range only if  *)
(* a chain of overlaps or gaps of at most min_gap_ms connects them.        *)
C13_MergeRangesWellFormed ==
    (Merged /\ WellFormed(args.ranges, args.min_gap_ms)) =>
        MergedAsClaimed(args.ranges, args.min_gap_ms, ret.val)

(* Three well-formed inputs of which two were merged into a range that is  *)
(* none of the inputs, the third staying on its own.                       *)
C13_Witness ==
    /\ Merged
    /\ WellFormed(args.ranges, args.min_gap_ms)
    /\ Len(args.ranges) = 3
    /\ Len(ret.val) = 2
    /\ \E i \in 1..2 : \A k \in 1..3 : ret.val[i] # args.ranges[k]

(* C13 as stated, for every list of ranges and every min_gap_ms *)
C13_MergeRangesAnyInput ==
    Merged => MergedAsClaimed(args.ranges, args.min_gap_ms, ret.val)

-----------------------------------------------------------------------------
(* dsp.fade_curves.generate_fade_curve: gains in thousandths *)

One == 1000

(* progress * 60 -> 1000 * log10(1 + 9 * progress), rounded *)
Log10Curve(p60) ==
    CASE p60 = 0 -> 0 [] p60 = 10 -> 398 [] p60 = 12 -> 447 [] p60 = 15 -> 512
      [] p60 = 20 -> 602 [] p60 = 24 -> 663 [] p60 = 30 -> 740 [] p60 = 36 -> 806
      [] p60 = 40 -> 845 [] p60 = 45 -> 889 [] p60 = 48 -> 914 [] p60 = 50 -> 929
      [] p60 = 60 -> 1000

(* progress * 60 -> 1000 * (10^progress - 1) / 9, rounded *)
Pow10Curve(p60) ==
    CASE p60 = 0 -> 0 [] p60 = 10 -> 52 [] p60 = 12 -> 65 [] p60 = 15 -> 86
      [] p60 = 20 -> 128 [] p60 = 24 -> 168 [] p60 = 30 -> 240 [] p60 = 36 -> 331
      [] p60 = 40 -> 405 [] p60 = 45 -> 514 [] p60 = 48 -> 590 [] p60 = 50 -> 646
      [] p60 = 60 -> 1000

(* np.linspace(0.0, 1.0, num): num values start + i * step with            *)
(* step = 1 / (num - 1); a single value is the start. In sixtieths.        *)
linspace(num) ==
    [i \in 1..num |-> IF num = 1 THEN 0 ELSE ((i - 1) * 60) \div (num - 1)]

clip(x, lo, hi) == Max(lo, Min(hi, x))

(* The curve with the reversal dropped: a fade-out is not turned around *)
generate_fade_curve_unreversed(curve_type, num_samples, fade_in) ==
    IF num_samples <= 0 THEN <<>>
    ELSE LET progress == linspace(num_samples)
             gain == [i \in 1..num_samples |->
                         CASE curve_type = "logarithmic" -> Log10Curve(progress[i])
                           [] curve_type = "exponential" -> Pow10Curve(progress[i])
                           [] OTHER -> (progress[i] * One) \div 60]
         IN  [i \in 1..num_samples |-> clip(gain[i], 0, One)]

generate_fade_curve(curve_type, num_samples, fade_in) ==
    IF num_samples <= 0 THEN <<>>
    ELSE LET progress == linspace(num_samples)
             gain == [i \in 1..num_samples |->
                         CASE curve_type = "logarithmic" -> Log10Curve(progress[i])
                           [] curve_type = "exponential" -> Pow10Curve(progress[i])
                           [] OTHER -> (progress[i] * One) \div 60]
             turned == [i \in 1..num_samples |->
                           IF fade_in THEN gain[i] ELSE One - gain[i]]
         IN  [i \in 1..num_samples |-> clip(turned[i], 0, One)]

GenerateFadeCurve ==
    /\ args # <<>>
    /\ args.fn = "generate_fade_curve"
    /\ ret = <<>>
    /\ ret' = [val |-> generate_fade_curve(args.curve_type, args.num_samples,
                                           args.fade_in)]
    /\ UNCHANGED <<args, pvars, svars, bvars>>

MaxSamples == 5

FadeCurveCalls ==
    {[fn |-> "generate_fade_curve", curve_type |-> c, num_samples |-> n,
      fade_in |-> f] :
        c \in {"linear", "logarithmic", "exponential"},
        n \in -1..MaxSamples, f \in BOOLEAN}

-----------------------------------------------------------------------------
(* Claims about generate_fade_curve *)

Faded == args # <<>> /\ args.fn = "generate_fade_curve" /\ ret # <<>>

CurveAsClaimed(num_samples, fade_in, gain) ==
    /\ Len(gain) = num_samples
    /\ \A i \in 1..Len(gain) : 0 <= gain[i] /\ gain[i] <= One
    /\ gain[1] = (IF fade_in THEN 0 ELSE One)
    /\ gain[Len(gain)] = (IF fade_in THEN One ELSE 0)

(* C14: for every curve type and every num_samples > 1, generate_fade_curve *)
(* returns num_samples values within [0, 1], running from 0.0 to 1.0 for a *)
(* fade-in and from 1.0 to 0.0 for a fade-out; for num_samples = 1 it       *)
(* returns the single starting value (0.0 for a fade-in, 1.0 for a         *)
(* fade-out).                                                              *)
C14_FadeCurveEnds ==
    Faded =>
        /\ args.num_samples > 1 =>
              CurveAsClaimed(args.num_samples, args.fade_in, ret.val)
        /\ args.num_samples = 1 =>
              ret.val = <<IF args.fade_in THEN 0 ELSE One>>

(* A logarithmic fade-out of three samples with its middle value strictly  *)
(* between the ends.                                                       *)
C14_Witness ==
    /\ Faded
    /\ args.curve_type = "logarithmic"
    /\ ~args.fade_in
    /\ args.num_samples = 3
    /\ ret.val[2] > 0
    /\ ret.val[2] < One

(* C14 as stated, for every num_samples > 0 *)
C14_FadeCurveEndsFromOne ==
    (Faded /\ args.num_samples > 0) =>
        CurveAsClaimed(args.num_samples, args.fade_in, ret.val)

-----------------------------------------------------------------------------
(* Loudness correction gains. A float is a record: kind "fin" with the     *)
(* value n / d (d > 0), or "-inf", "+inf", "nan".                          *)

Fin(n, d) == [kind |-> "fin", n |-> n, d |-> d]
Inf(kind) == [kind |-> kind, n |-> 0, d |-> 1]

(* a - b in IEEE arithmetic *)
FSub(a, b) ==
    CASE a.kind = "nan" \/ b.kind = "nan" -> Inf("nan")
      [] a.kind = "fin" /\ b.kind = "fin" -> Fin(a.n * b.d - b.n * a.d, a.d * b.d)
      [] a.kind = "fin" /\ b.kind = "-inf" -> Inf("+inf")
      [] a.kind = "fin" /\ b.kind = "+inf" -> Inf("-inf")
      [] a.kind = b.kind -> Inf("nan")
      [] OTHER -> Inf(a.kind)

(* a < b in IEEE arithmetic: false as soon as one side is nan *)
FLess(a, b) ==
    CASE a.kind = "nan" \/ b.kind = "nan" -> FALSE
      [] a.kind = "fin" /\ b.kind = "fin" -> a.n * b.d < b.n * a.d
      [] a.kind = b.kind -> FALSE
      [] OTHER -> a.kind = "-inf" \/ b.kind = "+inf"

MaxBoostDb == 6
MaxCutDb == 10

(* The clamp without the boost limit: only cuts are limited *)
compute_lufs_gain_db_no_boost_limit(current_lufs, target_lufs) ==
    LET gain_db == FSub(target_lufs, current_lufs) IN
    IF FLess(gain_db, Fin(-MaxCutDb, 1)) THEN Fin(-MaxCutDb, 1)
    ELSE gain_db

(* streaming.loudness.compute_lufs_gain_db with its default limits *)
compute_lufs_gain_db(current_lufs, target_lufs) ==
    LET gain_db == FSub(target_lufs, current_lufs) IN
    IF FLess(Fin(MaxBoostDb, 1), gain_db) THEN Fin(MaxBoostDb, 1)
    ELSE IF FLess(gain_db, Fin(-MaxCutDb, 1)) THEN Fin(-MaxCutDb, 1)
    ELSE gain_db

(* np.mean of a non-empty list of measurements, none of them +inf or nan *)
RECURSIVE SumLufs(_, _)
SumLufs(measurements, n) ==
    IF n = 0 THEN 0 ELSE SumLufs(measurements, n - 1) + measurements[n].n

mean(measurements) ==
    IF \E i \in 1..Len(measurements) : measurements[i].kind = "-inf"
    THEN Inf("-inf")
    ELSE Fin(SumLufs(measurements, Len(measurements)), Len(measurements))

(* StreamingLoudnessEstimator.get_estimated_gain_db *)
get_estimated_gain_db(measurements, target_lufs) ==
    IF measurements = <<>> THEN Fin(0, 1)
    ELSE compute_lufs_gain_db(mean(measurements), target_lufs)

(* dsp.loudness.apply_lufs_target on audio of a measured loudness; the     *)
(* result is the gain handed to audio.apply_gain.                          *)
apply_lufs_target(audio, target_lufs) ==
    IF audio.none THEN [error |-> "ValueError", gain_db |-> Fin(0, 1)]
    ELSE LET gain_db == FSub(target_lufs, audio.lufs) IN
         [error |-> "none",
          gain_db |-> IF FLess(Fin(MaxBoostDb, 1), gain_db) THEN Fin(MaxBoostDb, 1)
                      ELSE IF FLess(gain_db, Fin(-MaxCutDb, 1)) THEN Fin(-MaxCutDb, 1)
                      ELSE gain_db]

ComputeGain ==
    /\ args # <<>>
    /\ args.fn \in {"compute_lufs_gain_db", "get_estimated_gain_db",
                    "apply_lufs_target"}
    /\ ret = <<>>
    /\ ret' = CASE args.fn = "compute_lufs_gain_db" ->
                     [error |-> "none",
                      gain_db |-> compute_lufs_gain_db(args.measured[1], args.target)]
                [] args.fn = "get_estimated_gain_db" ->
                     [error |-> "none",
                      gain_db |-> get_estimated_gain_db(args.measured, args.target)]
                [] OTHER ->
                     apply_lufs_target([none |-> args.measured = <<>>,
                                        lufs |-> IF args.measured = <<>>
                                                 THEN Inf("nan")
                                                 ELSE args.measured[1]],
                                       args.target)
    /\ UNCHANGED <<args, pvars, svars, bvars>>

MaxLufsSteps == 3

(* Measured loudness: silence, and values around the targets *)
MeasuredLufs ==
    {Inf("-inf")} \cup {Fin(-30 + 8 * k, 1) : k \in 0..MaxLufsSteps}

TargetLufs == {Fin(-23, 1), Fin(-16, 1), Fin(-14, 1)}

GainCalls ==
    {[fn |-> "compute_lufs_gain_db", measured |-> <<m>>, target |-> t] :
        m \in MeasuredLufs, t \in TargetLufs}
    \cup {[fn |-> "apply_lufs_target", measured |-> ms, target |-> t] :
        ms \in {<<>>} \cup {<<m>> : m \in MeasuredLufs}, t \in TargetLufs}
    \cup {[fn |-> "get_estimated_gain_db", measured |-> ms, target |-> t] :
        ms \in {<<>>} \cup {<<m>> : m \in MeasuredLufs}
                      \cup {<<m1, m2>> : m1 \in MeasuredLufs, m2 \in MeasuredLufs},
        t \in TargetLufs}

-----------------------------------------------------------------------------
(* Claims about the loudness gains *)

Gained ==
    /\ args # <<>>
    /\ args.fn \in {"compute_lufs_gain_db", "get_estimated_gain_db",
                    "apply_lufs_target"}
    /\ ret # <<>>
    /\ ret.error = "none"

(* C15: every loudness-correction gain computed by compute_lufs_gain_db,   *)
(* get_estimated_gain_db and apply_lufs_target is a number with            *)
(* -10 <= gain_db <= +6, also for a measured loudness of minus infinity.   *)
C15_GainWithinLimits ==
    Gained =>
        /\ ret.gain_db.kind = "fin"
        /\ -10 * ret.gain_db.d <= ret.gain_db.n
        /\ ret.gain_db.n <= 6 * ret.gain_db.d

(* The estimator has measured silence in one chunk and sound in another    *)
(* and its gain is the largest boost.                                      *)
C15_Witness ==
    /\ Gained
    /\ args.fn = "get_estimated_gain_db"
    /\ Len(args.measured) = 2
    /\ args.measured[1].kind = "-inf"
    /\ args.measured[2].kind = "fin"
    /\ ret.gain_db = Fin(6, 1)

-----------------------------------------------------------------------------
(* Claims about the chunk loop of render_pass *)

(* The segments the writer of the current pass has written *)
PassSegments == IF writer.file \in DOMAIN files THEN files[writer.file] ELSE <<>>

InPass == pc \in {"chunk_loop", "pass_closed", "done", "aborted"} /\ pass_no > 0

WindowsInOrder(segments) ==
    /\ segments # <<>> => segments[1].start = 0
    /\ \A i \in 1..(Len(segments) - 1) :
          /\ segments[i + 1].start = segments[i].end
          /\ segments[i].start < segments[i + 1].start

(* C16: in every render pass the chunk windows written are consecutive     *)
(* from 0, in strictly increasing time order, the next chunk starts where  *)
(* the last written one ended, and a pass that has ended has covered       *)
(* [0, duration).                                                          *)
C16_ChunkWindowsInOrder ==
    InPass =>
        /\ WindowsInOrder(PassSegments)
        /\ chunk_start = (IF PassSegments = <<>> THEN 0
                          ELSE PassSegments[Len(PassSegments)].end)
        /\ pc \in {"pass_closed", "done"} =>
              /\ PassSegments # <<>>
              /\ PassSegments[Len(PassSegments)].end = timeline.duration

PassEnded == pc \in {"pass_closed", "done", "aborted"} /\ pass_no > 0

(* C17: in every render pass the writer is opened exactly once before the  *)
(* first write and closed exactly once after the last write, also when a   *)
(* chunk raises; write_segment on a writer that is not open raises         *)
(* RuntimeError and appends nothing.                                       *)
C17_WriterOpenedAndClosedOnce ==
    /\ InPass => writer.opens = 1
    /\ (pc = "chunk_loop" /\ pass_no > 0) => (writer.open /\ writer.closes = 0)
    /\ PassEnded => (~writer.open /\ writer.closes = 1)
    /\ ~writer.open =>
          LET written == write_segment(writer, PassSegments, [start |-> 0])
          IN  written.error = "RuntimeError" /\ written.frames = PassSegments

(* C18: in a streaming render a failure in a per-chunk step is caught: the *)
(* chunk is still written and the run is never aborted by an exception.    *)
C18_ChunkFailuresCaught ==
    entry = "render_streaming" => (pc # "aborted" /\ error = "none")

-----------------------------------------------------------------------------
(* renderer.MasterProcessor.process. A buffer is the list of the stages    *)
(* that have shaped it, or no buffer at all (None).                        *)

Buffer(applied) == [none |-> FALSE, applied |-> applied]
NoBuffer == [none |-> TRUE, applied |-> <<>>]

(* One of the guarded stages (LUFS correction, peak normalization, master  *)
(* fade-out): audio = stage(audio) inside try, the except clause raising   *)
(* ValueError when audio is None. The stage function returns a buffer,     *)
(* raises, or returns None; called on None it raises.                      *)
MasterStage(audio, enabled, name, outcome) ==
    IF ~enabled THEN [error |-> "none", audio |-> audio]
    ELSE IF audio.none THEN [error |-> "ValueError", audio |-> audio]
    ELSE CASE outcome = "buffer" ->
                 [error |-> "none", audio |-> Buffer(Append(audio.applied, name))]
           [] outcome = "raises" -> [error |-> "none", audio |-> audio]
           [] OTHER -> [error |-> "none", audio |-> NoBuffer]

MasterProcessor_process(audio, config, outcomes) ==
    LET gained == IF config.master_gain THEN Buffer(Append(audio.applied, "gain"))
                  ELSE audio
        lufs == MasterStage(gained, config.loudness, "loudness", outcomes[1])
        peak == MasterStage(lufs.audio, config.normalize_peak, "peak", outcomes[2])
        fade == MasterStage(peak.audio, config.master_fade_out, "fade", outcomes[3])
    IN  IF audio.none THEN [error |-> "ValueError", audio |-> audio]
        ELSE IF lufs.error # "none" THEN lufs
        ELSE IF peak.error # "none" THEN peak
        ELSE IF fade.error # "none" THEN fade
        ELSE IF fade.audio.none THEN [error |-> "ValueError", audio |-> NoBuffer]
        ELSE fade

MasterProcess ==
    /\ args # <<>>
    /\ args.fn = "MasterProcessor.process"
    /\ ret = <<>>
    /\ ret' = MasterProcessor_process(args.audio, args.config, args.outcomes)
    /\ UNCHANGED <<args, pvars, svars, bvars>>

StageOutcomes == {"buffer", "raises", "none"}

MasterCalls ==
    {[fn |-> "MasterProcessor.process",
      audio |-> a,
      config |-> [master_gain |-> g, loudness |-> l, normalize_peak |-> p,
                  master_fade_out |-> f],
      outcomes |-> <<o1, o2, o3>>] :
        a \in {Buffer(<<"mix">>), NoBuffer},
        g \in BOOLEAN, l \in BOOLEAN, p \in BOOLEAN, f \in BOOLEAN,
        o1 \in StageOutcomes, o2 \in StageOutcomes, o3 \in StageOutcomes}

-----------------------------------------------------------------------------
(* Claims about MasterProcessor.process *)

Mastered == args # <<>> /\ args.fn = "MasterProcessor.process" /\ ret # <<>>

(* The stages that are enabled and do not fail, in the order of the claim *)
StagesDone(config, outcomes) ==
    (IF config.master_gain THEN <<"gain">> ELSE <<>>)
    \o (IF config.loudness /\ outcomes[1] = "buffer" THEN <<"loudness">> ELSE <<>>)
    \o (IF config.normalize_peak /\ outcomes[2] = "buffer" THEN <<"peak">> ELSE <<>>)
    \o (IF config.master_fade_out /\ outcomes[3] = "buffer" THEN <<"fade">> ELSE <<>>)

(* C19: process applies gain, loudness correction, peak normalization and  *)
(* fade-out in that order; a loudness, peak or fade stage that raises or   *)
(* yields no buffer is skipped, the buffer of the previous stage going on  *)
(* to the next, and process does not raise.                                *)
C19_MasterStagesFaultTolerant ==
    (Mastered /\ ~args.audio.none) =>
        /\ ret.error = "none"
        /\ ret.audio = Buffer(<<"mix">> \o StagesDone(args.config, args.outcomes))

-----------------------------------------------------------------------------
(* The library calls as a specification *)

InitCalls ==
    /\ NoRender
    /\ args \in MergeCalls \cup FadeCurveCalls \cup GainCalls \cup MasterCalls
    /\ ret = <<>>

NextCalls == MergeRanges \/ GenerateFadeCurve \/ ComputeGain \/ MasterProcess

SpecCalls == InitCalls /\ [][NextCalls]_vars

-----------------------------------------------------------------------------
(* dsp.streaming_eq._StatefulFilter: second-order filters with integer     *)
(* coefficients b, a (a[1] = 1); a chunk is one-dimensional (mono, a       *)
(* sequence of samples) or two-dimensional (a sequence of frames).         *)

(* signal.lfilter_zi: the state of the steady response to a unit step *)
lfilter_zi(b, a) ==
    LET y == (b[1] + b[2] + b[3]) \div (a[1] + a[2] + a[3])
    IN  <<y - b[1], b[3] - a[3] * y>>

(* signal.lfilter(b, a, x, zi): transposed direct form II, sample by sample *)
RECURSIVE lfilter(_, _, _, _)
lfilter(b, a, x, zi) ==
    IF x = <<>> THEN [out |-> <<>>, zf |-> zi]
    ELSE LET y == b[1] * x[1] + zi[1]
             z == <<b[2] * x[1] - a[2] * y + zi[2], b[3] * x[1] - a[3] * y>>
             rest == lfilter(b, a, Tail(x), z)
         IN  [out |-> <<y>> \o rest.out, zf |-> rest.zf]

NoState == <<>>

(* _init_state *)
StatefulFilter_init_state(b, a, channels) ==
    IF channels = 1 THEN lfilter_zi(b, a)
    ELSE [ch \in 1..channels |-> lfilter_zi(b, a)]

(* process_chunk forgetting the carried state: every chunk starts afresh *)
StatefulFilter_process_chunk_fresh(b, a, zi, chunk) ==
    IF chunk.data = <<>> THEN [out |-> chunk.data, zi |-> zi]
    ELSE LET channels == IF chunk.ndim = 1 THEN 1 ELSE Len(chunk.data[1])
             zi0 == StatefulFilter_init_state(b, a, channels)
             mono == lfilter(b, a, chunk.data, zi0)
             each == [ch \in 1..channels |->
                        lfilter(b, a, [i \in 1..Len(chunk.data) |-> chunk.data[i][ch]],
                                zi0[ch])]
         IN  IF channels = 1
             THEN [out |-> mono.out, zi |-> mono.zf]
             ELSE [out |-> [i \in 1..Len(chunk.data) |->
                              [ch \in 1..channels |-> each[ch].out[i]]],
                   zi |-> [ch \in 1..channels |-> each[ch].zf]]

(* process_chunk: the output and the state self._zi it leaves *)
StatefulFilter_process_chunk(b, a, zi, chunk) ==
    IF chunk.data = <<>> THEN [out |-> chunk.data, zi |-> zi]
    ELSE LET channels == IF chunk.ndim = 1 THEN 1 ELSE Len(chunk.data[1])
             zi0 == IF zi = NoState THEN StatefulFilter_init_state(b, a, channels)
                    ELSE zi
             mono == lfilter(b, a, chunk.data, zi0)
             each == [ch \in 1..channels |->
                        lfilter(b, a, [i \in 1..Len(chunk.data) |-> chunk.data[i][ch]],
                                zi0[ch])]
         IN  IF channels = 1
             THEN [out |-> mono.out, zi |-> mono.zf]
             ELSE [out |-> [i \in 1..Len(chunk.data) |->
                              [ch \in 1..channels |-> each[ch].out[i]]],
                   zi |-> [ch \in 1..channels |-> each[ch].zf]]

Chunk(ndim, data) == [ndim |-> ndim, data |-> data]

MaxCalls == 4

(* The next chunk of the signal, of any length from 0 on, goes through     *)
(* the filter; ret keeps the state, the outputs so far and the state       *)
(* before the call.                                                        *)
FilterChunk ==
    /\ args # <<>>
    /\ args.fn = "process_chunk"
    /\ ret.fed < Len(args.signal)
    /\ ret.chunks < MaxCalls
    /\ \E n \in 0..(Len(args.signal) - ret.fed) :
          LET chunk == Chunk(args.ndim, SubSeq(args.signal, ret.fed + 1, ret.fed + n))
              done == StatefulFilter_process_chunk(args.b, args.a, ret.zi, chunk)
          IN  ret' = [zi |-> done.zi, out |-> ret.out \o done.out,
                      fed |-> ret.fed + n, chunks |-> ret.chunks + 1,
                      last |-> n, zi_before |-> ret.zi]
    /\ UNCHANGED <<args, pvars, svars, bvars>>

MaxSignalLen == 3

Signals(S) ==
    {<<>>} \cup UNION {[1..n -> S] : n \in 1..MaxSignalLen}

(* A low-pass, a high-pass and a peaking section *)
FilterCoefficients ==
    {<<<<1, 2, 1>>, <<1, -1, 1>>>>, <<<<1, -2, 1>>, <<1, 1, -1>>>>,
     <<<<2, -1, 1>>, <<1, -1, 1>>>>}

FilterRuns ==
    {[fn |-> "process_chunk", b |-> c[1], a |-> c[2], ndim |-> 1, signal |-> s] :
        c \in FilterCoefficients, s \in Signals({-1, 0, 1})}
    \cup {[fn |-> "process_chunk", b |-> c[1], a |-> c[2], ndim |-> 2, signal |-> s] :
        c \in FilterCoefficients, s \in Signals({<<0, 1>>, <<1, -1>>})}

InitFilter ==
    /\ NoRender
    /\ args \in FilterRuns
    /\ ret = [zi |-> NoState, out |-> <<>>, fed |-> 0, chunks |-> 0, last |-> 0,
              zi_before |-> NoState]

NextFilter == FilterChunk

SpecFilter == InitFilter /\ [][NextFilter]_vars

-----------------------------------------------------------------------------
(* Claims about the stateful filter *)

Filtering == args # <<>> /\ args.fn = "process_chunk"

(* A single call on the part of the signal fed so far, from a new filter *)
WholeCall ==
    StatefulFilter_process_chunk(args.b, args.a, NoState,
                                 Chunk(args.ndim, SubSeq(args.signal, 1, ret.fed)))

(* C20: the outputs of successive process_chunk calls on consecutive       *)
(* chunks, concatenated, are the output of one call on the whole signal    *)
(* from the same initial state, and the state left is the same; an empty   *)
(* chunk leaves the carried state unchanged.                               *)
C20_ChunkedEqualsWhole ==
    Filtering =>
        /\ ret.out = WholeCall.out
        /\ ret.zi = WholeCall.zi
        /\ (ret.chunks > 0 /\ ret.last = 0) => ret.zi = ret.zi_before

(* A stereo signal that went through the filter in three chunks *)
C20_Witness ==
    /\ Filtering
    /\ args.ndim = 2
    /\ ret.fed = Len(args.signal)
    /\ ret.fed = 3
    /\ ret.chunks = 3
    /\ ret.last = 1
    /\ ret.zi # StatefulFilter_init_state(args.b, args.a, 2)

-----------------------------------------------------------------------------
(* ChunkProcessor.process_chunk, stage 1 and 2, with the track workers of  *)
(* the thread pool interleaved. args.tracks are the active tracks in the   *)
(* order of active.items(), each with the files of its slices; ret holds   *)
(* the workers, the registries of the processor, the objects each worker   *)
(* has touched and the buffers collected and mixed.                        *)

(* A mutable object of the processor: a registry dict, a loader, an EQ    *)
(* chain, a compressor or a track buffer                                  *)
Obj(kind, key, file, n) == [kind |-> kind, key |-> key, file |-> file, n |-> n]

WorkerIdle == [pc |-> "queued", slice |-> 1, loader |-> 0, buffer |-> <<>>]

PoolIdle(tracks) ==
    [workers |-> [t \in 1..Len(tracks) |-> WorkerIdle],
     chunk_loaders |-> [f \in {} |-> 0],
     made |-> 0,
     touched |-> {},
     track_buffers |-> <<>>,
     mixed |-> <<>>]

Pooled == args # <<>> /\ args.fn = "process_chunk.pool"

Running(workers) ==
    Cardinality({t \in DOMAIN workers : workers[t].pc \notin {"queued", "done"}})

(* executor.submit: the pool runs the queued calls first in, first out, at *)
(* most max_workers at a time                                              *)
WorkerStart(t) ==
    /\ Pooled
    /\ ret.workers[t].pc = "queued"
    /\ \A u \in 1..(t - 1) : ret.workers[u].pc # "queued"
    /\ Running(ret.workers) < args.max_workers
    /\ ret' = [ret EXCEPT !.workers[t].pc = "get_loader"]
    /\ UNCHANGED <<args, pvars, svars, bvars>>

(* _get_chunk_loader, lines 104-105: loader = self._chunk_loaders.get(...) *)
WorkerGetLoader(t) ==
    /\ Pooled
    /\ ret.workers[t].pc = "get_loader"
    /\ LET file == args.tracks[t].files[ret.workers[t].slice]
           found == file \in DOMAIN ret.chunk_loaders
       IN  ret' = [ret EXCEPT
                     !.workers[t].loader = IF found THEN ret.chunk_loaders[file] ELSE 0,
                     !.workers[t].pc = IF found THEN "process" ELSE "store_loader",
                     !.touched = @ \cup {<<Obj("dict", "_chunk_loaders", "", 0), t>>}]
    /\ UNCHANGED <<args, pvars, svars, bvars>>

(* _get_chunk_loader, lines 106-108: a new ChunkLoader is put in the dict *)
WorkerStoreLoader(t) ==
    /\ Pooled
    /\ ret.workers[t].pc = "store_loader"
    /\ LET file == args.tracks[t].files[ret.workers[t].slice]
           loader == ret.made + 1
       IN  ret' = [ret EXCEPT
                     !.made = loader,
                     !.chunk_loaders = [f \in DOMAIN @ \cup {file} |->
                                           IF f = file THEN loader ELSE @[f]],
                     !.workers[t].loader = loader,
                     !.workers[t].pc = "process",
                     !.touched = @ \cup {<<Obj("dict", "_chunk_loaders", "", 0), t>>}]
    /\ UNCHANGED <<args, pvars, svars, bvars>>

(* Lines 151-209: the slice is decoded by the loader, filtered by the EQ   *)
(* chain of its key and overlaid on the buffer of the track                *)
WorkerProcess(t) ==
    /\ Pooled
    /\ ret.workers[t].pc = "process"
    /\ LET w == ret.workers[t]
           track == args.tracks[t]
           file == track.files[w.slice]
           last == w.slice = Len(track.files)
           chain == IF track.eq
                    THEN {<<Obj("dict", "_streaming_eq_chains", "", 0), t>>,
                          <<Obj("chain", track.id, file, 0), t>>}
                    ELSE {}
       IN  ret' = [ret EXCEPT
                     !.workers[t].buffer = Append(@, file),
                     !.workers[t].slice = IF last THEN @ ELSE @ + 1,
                     !.workers[t].pc = IF last THEN "finish" ELSE "get_loader",
                     !.touched = @ \cup chain
                                   \cup {<<Obj("loader", "", "", w.loader), t>>,
                                         <<Obj("buffer", track.id, "", 0), t>>}]
    /\ UNCHANGED <<args, pvars, svars, bvars>>

(* Lines 214-238: role loudness and the compressor of the track *)
WorkerFinish(t) ==
    /\ Pooled
    /\ ret.workers[t].pc = "finish"
    /\ LET track == args.tracks[t]
           compressor == IF track.compress
                         THEN {<<Obj("dict", "_streaming_compressors", "", 0), t>>,
                               <<Obj("compressor", track.id, "", 0), t>>}
                         ELSE {}
       IN  ret' = [ret EXCEPT !.workers[t].pc = "done",
                              !.touched = @ \cup compressor]
    /\ UNCHANGED <<args, pvars, svars, bvars>>

(* Lines 248-250: track_buffers[track_id] = future.result(), the futures   *)
(* taken in the order they were submitted                                  *)
TakeResult ==
    /\ Pooled
    /\ Len(ret.track_buffers) < Len(args.tracks)
    /\ LET t == Len(ret.track_buffers) + 1
       IN  /\ ret.workers[t].pc = "done"
           /\ ret' = [ret EXCEPT !.track_buffers =
                         Append(@, [id |-> args.tracks[t].id,
                                    buffer |-> ret.workers[t].buffer])]
    /\ UNCHANGED <<args, pvars, svars, bvars>>

(* The buffers in the order they were collected *)
InsertionOrder(track_buffers) == track_buffers

(* Lines 258-262: for track_id in sorted(track_buffers.keys()) *)
MixOrder(track_buffers) ==
    LET ids == SortedIds({track_buffers[i].id : i \in 1..Len(track_buffers)})
    IN  [k \in 1..Len(ids) |->
            CHOOSE b \in {track_buffers[i] : i \in 1..Len(track_buffers)} :
                b.id = ids[k]]

MixBuffers ==
    /\ Pooled
    /\ Len(ret.track_buffers) = Len(args.tracks)
    /\ ret.mixed = <<>>
    /\ ret' = [ret EXCEPT !.mixed = MixOrder(ret.track_buffers)]
    /\ UNCHANGED <<args, pvars, svars, bvars>>

MaxPoolWorkers == 2

PoolTracks ==
    {<<[id |-> "voice", files |-> fv, eq |-> TRUE, compress |-> c],
       [id |-> "music", files |-> fm, eq |-> e, compress |-> FALSE]>> :
        fv \in {<<"c.wav">>, <<"a.wav">>}, fm \in {<<"a.wav">>, <<"a.wav", "a.wav">>,
                                                 <<"b.wav", "a.wav">>},
        c \in BOOLEAN, e \in BOOLEAN}
    \cup {<<[id |-> "voice", files |-> <<"c.wav">>, eq |-> TRUE, compress |-> TRUE],
            [id |-> "sfx", files |-> <<f>>, eq |-> FALSE, compress |-> FALSE],
            [id |-> "music", files |-> <<"a.wav">>, eq |-> TRUE, compress |-> FALSE]>> :
        f \in {"a.wav", "b.wav"}}

InitPool ==
    /\ NoRender
    /\ \E tracks \in PoolTracks, n \in 1..MaxPoolWorkers :
          /\ args = [fn |-> "process_chunk.pool", tracks |-> tracks, max_workers |-> n]
          /\ ret = PoolIdle(tracks)

NextPool ==
    \/ \E t \in 1..Len(args.tracks) :
          WorkerStart(t) \/ WorkerGetLoader(t) \/ WorkerStoreLoader(t)
              \/ WorkerProcess(t) \/ WorkerFinish(t)
    \/ TakeResult
    \/ MixBuffers

SpecPool == InitPool /\ [][NextPool]_vars

-----------------------------------------------------------------------------
(* Claims about the worker pool *)

(* The buffer a worker run on its own produces for a track *)
AloneBuffer(track) == [id |-> track.id, buffer |-> track.files]

Ascending(buffers) ==
    \A i \in 1..(Len(buffers) - 1) : IdRank(buffers[i].id) < IdRank(buffers[i + 1].id)

(* C21: whatever the interleaving of the workers, the buffers are overlaid *)
(* in ascending track-id order and each is the buffer the track's worker   *)
(* produces on its own.                                                    *)
C21_MixOrderFixed ==
    (Pooled /\ ret.mixed # <<>>) =>
        /\ Ascending(ret.mixed)
        /\ {ret.mixed[i] : i \in 1..Len(ret.mixed)}
              = {AloneBuffer(args.tracks[t]) : t \in 1..Len(args.tracks)}
        /\ Len(ret.mixed) = Len(args.tracks)

(* Three tracks run by two threads and mixed in another order than their   *)
(* buffers were collected                                                  *)
C21_Witness ==
    /\ Pooled
    /\ ret.mixed # <<>>
    /\ Len(args.tracks) = 3
    /\ args.max_workers = 2
    /\ ret.mixed # ret.track_buffers

InWorker(t) == ret.workers[t].pc \notin {"queued", "done"}

(* C22: no mutable object is touched by two workers that run at the same   *)
(* time: each works on its own buffer, filters, compressor and loaders.    *)
C22_NoSharedMutableState ==
    Pooled =>
        \A x \in ret.touched, y \in ret.touched :
            (x[1] = y[1] /\ InWorker(x[2]) /\ InWorker(y[2])) => x[2] = y[2]

-----------------------------------------------------------------------------
(* streaming.ClipScheduler called window by window: args holds the         *)
(* timeline the scheduler was built on, ret the windows asked for so far   *)
(* and what get_active_clips returned for each.                            *)

Scheduling == args # <<>> /\ args.fn = "get_active_clips"

(* One call of get_active_clips for the window that follows the last one *)
ScheduleWindow ==
    /\ Scheduling
    /\ ret.chunk_start < args.timeline.duration
    /\ \E chunk_end \in (ret.chunk_start + 1)..args.timeline.duration :
          ret' = [chunk_start |-> chunk_end,
                  windows |-> Append(ret.windows,
                      [from |-> ret.chunk_start, to |-> chunk_end,
                       active |-> get_active_clips(args.timeline,
                                                   ret.chunk_start, chunk_end)])]
    /\ UNCHANGED <<args, pvars, svars, bvars>>

SchedTicks == 8

(* Clips on files of 2, 4 and 8 ticks and on a file whose probe fails *)
SchedClips ==
    {Clip(f, s) : f \in {"a.wav", "b.wav", "c.wav", "missing.wav"},
                  s \in (0..MaxStart) \cup {Absent, SchedTicks - 1}}
    \cup {LoopClip(f, s, u) : f \in {"a.wav", "b.wav", "missing.wav"},
                              s \in 0..MaxStart,
                              u \in {Absent, 2, SchedTicks - 1, SchedTicks + 2}}

SchedTimelines ==
    {Timeline(SchedTicks, <<Track("music", "music", <<c>>)>>, <<>>, EmptyDict) :
        c \in SchedClips}
    \cup {Timeline(SchedTicks, <<Track("voice", "voice", <<Clip("b.wav", s)>>),
                                Track("music", "music", <<LoopClip("a.wav", 1, Absent),
                                                         Clip("b.wav", s + 1)>>)>>,
                   <<>>, EmptyDict) : s \in 0..MaxStart}

InitSched ==
    /\ NoRender
    /\ \E tl \in SchedTimelines :
          args = [fn |-> "get_active_clips", timeline |-> tl]
    /\ ret = [chunk_start |-> 0, windows |-> <<>>]

NextSched == ScheduleWindow

SpecSched == InitSched /\ [][NextSched]_vars

-----------------------------------------------------------------------------
(* Claims about the scheduler *)

(* The clips of the timeline, each with the id of its track *)
SchedRefs ==
    UNION {{[id |-> args.timeline.tracks[t].id, clip |-> args.timeline.tracks[t].clips[k]] :
              k \in 1..Len(args.timeline.tracks[t].clips)} :
           t \in 1..Len(args.timeline.tracks)}

(* The slices of a clip in one window, in the order returned *)
SlicesIn(window, ref) ==
    IF ref.id \in DOMAIN window.active
    THEN SelectSeq(window.active[ref.id], LAMBDA s : s.clip = ref.clip)
    ELSE <<>>

(* The slices of a clip over all the windows asked for so far *)
RECURSIVE SlicesUpTo(_, _)
SlicesUpTo(ref, n) ==
    IF n = 0 THEN <<>>
    ELSE SlicesUpTo(ref, n - 1) \o SlicesIn(ret.windows[n], ref)

SliceTicks(s) == {t \in 0..(SchedTicks - 1) :
                    s.output_start <= t /\ t < s.output_start + s.duration}

(* The ticks on which the clip sounds, cut at the end of the project *)
ActiveTicks(c, tl) ==
    {t \in 0..(tl.duration - 1) : StartOr0(c) <= t /\ t < ClipEnd(c, tl)}

SlicesTile(ref) ==
    LET all == SlicesUpTo(ref, Len(ret.windows))
    IN  /\ \A i \in 1..Len(all), j \in 1..Len(all) :
              i # j => SliceTicks(all[i]) \cap SliceTicks(all[j]) = {}
        /\ UNION {SliceTicks(all[i]) : i \in 1..Len(all)}
              = {t \in ActiveTicks(ref.clip, args.timeline) : t < ret.chunk_start}
        /\ ~ref.clip.loop =>
              \A n \in 1..Len(ret.windows) : Len(SlicesIn(ret.windows[n], ref)) <= 1

(* mediainfo gave the file a duration above zero *)
Probed(c) == FileDur(c.file) > 0

(* With times that the floats hold exactly, as the ticks are: over any cut  *)
(* of the project into consecutive windows the slices of a clip are        *)
(* pairwise disjoint and cover exactly the clip's interval up to the last  *)
(* window's end; a looping clip on a file without a probed duration has no *)
(* slices.                                                                 *)
ExactSlicesTile ==
    Scheduling =>
        \A ref \in SchedRefs :
            IF ref.clip.loop /\ ~Probed(ref.clip)
            THEN SlicesUpTo(ref, Len(ret.windows)) = <<>>
            ELSE SlicesTile(ref)

(* Every slice returned so far, with the clip it was cut from *)
SchedSlices ==
    UNION {UNION {{window.active[id][i] : i \in 1..Len(window.active[id])} :
                    id \in DOMAIN window.active} :
           window \in {ret.windows[n] : n \in 1..Len(ret.windows)}}

SliceInsideFile(s) ==
    /\ s.duration > 0
    /\ s.source_start >= 0
    /\ s.source_start + s.duration <= FileDur(s.clip.file)
    /\ s.source_start =
          IF s.clip.loop
          THEN (s.output_start - StartOr0(s.clip)) % FileDur(s.clip.file)
          ELSE s.output_start - StartOr0(s.clip)

-----------------------------------------------------------------------------
(* Claims about ducking in process_clip *)

(* The rules of the list that match a clip of the role and whose trigger   *)
(* role has ranges                                                         *)
MatchingRules(rules, role, semantic, role_ranges) ==
    {i \in 1..Len(rules) :
        /\ MatchesWhen(rules[i], role, semantic)
        /\ ShouldDuck(rules[i], role, semantic)
        /\ rules[i].when \in DOMAIN role_ranges
        /\ role_ranges[rules[i].when] # <<>>}

(* C25: a clip is ducked by one rule at most, the first of the rules that  *)
(* match it and whose trigger role has a non-empty range.                  *)
C25_DuckedOnceByFirstRule ==
    LET rules == DuckRuleList(NestedGet(timeline.settings, "ducking", "rules", 0))
    IN  \A t \in 1..Len(canvas) : \A c \in 1..Len(canvas[t].clips) :
            LET done == canvas[t].clips[c]
                matching == MatchingRules(rules, timeline.tracks[t].role,
                                          ClipSemantic(timeline.tracks[t].clips[c],
                                                       timeline.tracks[t]),
                                          RoleRanges(timeline))
            IN  done.error = "none" =>
                    /\ Cardinality(done.ducked) <= 1
                    /\ \A i \in done.ducked : \A j \in matching : i <= j

-----------------------------------------------------------------------------
(* Claims about the rolling loudness pass *)

RollingPass == InPass /\ PassPlan(timeline)[pass_no] = "rolling"

(* The starts of the first n segments that hold samples, in time order *)
RECURSIVE MeasuredUpTo(_, _)
MeasuredUpTo(segments, n) ==
    IF n = 0 THEN <<>>
    ELSE MeasuredUpTo(segments, n - 1)
         \o (IF segments[n].ms > 0 THEN <<segments[n].start>> ELSE <<>>)

(* C26: in the single-pass rolling mode the gain of chunk k is computed    *)
(* from the measurements of the chunks before k only, the first chunk gets *)
(* no measurement (0 dB), and the estimator holds one measurement of every *)
(* non-empty chunk written, in time order.                                 *)
C26_RollingGainIsCausal ==
    (RollingPass /\ pc # "aborted") =>
        /\ \A k \in 1..Len(PassSegments) :
              PassSegments[k].rolling_from = MeasuredUpTo(PassSegments, k - 1)
        /\ PassSegments # <<>> => PassSegments[1].rolling_from = <<>>
        /\ estimator = MeasuredUpTo(PassSegments, Len(PassSegments))

(* A rolling pass that has ended: three chunks measured and a last chunk   *)
(* without samples that was not                                            *)
C26_Witness ==
    /\ RollingPass
    /\ pc = "done"
    /\ Len(estimator) >= 3
    /\ PassSegments[Len(PassSegments)].ms = 0
    /\ PassSegments[Len(PassSegments)].rolling_from = estimator
    /\ Len(PassSegments[2].rolling_from) = 1

-----------------------------------------------------------------------------
(* Claims about looping clips in the chunk buffer *)

(* The part of the chunk buffer, in ms from the chunk's start, on which    *)
(* process_clip overlaid the audio of a slice: the overlay ends with the   *)
(* buffer                                                                  *)
Laid(w) ==
    <<w.result.done.at_ms,
      Min(w.result.done.at_ms + w.result.done.audio_ms, w.segment.ms)>>

LaidLoops ==
    {w \in WrittenSlices : w.result.slice.clip.loop /\ w.result.done.error = "none"}

(* C27: the audio a slice of a looping clip adds to the chunk buffer ends  *)
(* where the slice ends at the latest, and two slices of one looping clip  *)
(* in one chunk add audio to no common instant.                            *)
C27_LoopSliceConfined ==
    \A w \in LaidLoops :
        /\ OnTimeline(w.segment, Laid(w))[2]
              <= w.result.slice.output_start + w.result.slice.duration
        /\ \A v \in LaidLoops :
              (/\ v.segment = w.segment
               /\ v.track = w.track
               /\ v.result.slice.clip = w.result.slice.clip
               /\ v.result.slice.output_start > w.result.slice.output_start)
              => Laid(w)[2] <= Laid(v)[1]

-----------------------------------------------------------------------------
(* Termination of render_streaming. The renderer is one sequential thread: *)
(* whenever a step of it can be taken, it is taken.                        *)

(* One voice clip under every chunk size RenderConfig takes, which is any  *)
(* float: below zero, zero and above; in one pass and in two               *)
TerminationTimelines ==
    {Timeline(ProjectTicks, <<Track("voice", "voice", <<Clip("c.wav", s)>>)>>,
              <<>>, FullDucking(1, 1) @@ StreamingCfg(c, 1) @@ l) :
        s \in {0, MaxStart}, c \in (-2)..MaxChunkTicks,
        l \in {EmptyDict, LoudnessCfg}}

InitStreamFair ==
    /\ entry = "render_streaming"
    /\ pc = "validated"
    /\ timeline \in TerminationTimelines
    /\ before = timeline
    /\ error = "none"
    /\ warnings = [kind |-> "list", items |-> validate_timeline(timeline).warnings]
    /\ StreamIdle
    /\ BatchIdle
    /\ NoCall

SpecStreamFair == InitStreamFair /\ [][NextStream]_vars /\ WF_vars(NextStream)

(* C28: every run of render_streaming leaves its chunk loops: it ends with *)
(* the last pass closed, or with an exception.                             *)
C28_RenderStreamingTerminates == <>(pc \in {"done", "aborted"})

-----------------------------------------------------------------------------
(* ClipScheduler._add_looped_slices on times that the floats do not hold   *)
(* exactly. A float has MantissaBits significant bits; a time is a whole   *)
(* number of units of the smallest step, and every sum and difference is   *)
(* rounded to the nearest float, ties to the even mantissa.                *)

MantissaBits == 4

(* The gap between the floats around x *)
RECURSIVE Ulp(_)
Ulp(x) == IF x < 2 ^ MantissaBits THEN 1 ELSE 2 * Ulp(x \div 2)

(* The float nearest to x >= 0 *)
RoundFloat(x) ==
    LET u == Ulp(x)
        q == x \div u
        r == x % u
    IN  IF 2 * r < u THEN q * u
        ELSE IF 2 * r > u THEN (q + 1) * u
        ELSE IF q % 2 = 0 THEN q * u
        ELSE (q + 1) * u

IsFloat(x) == RoundFloat(x) = x

Walking == args # <<>> /\ args.fn = "_add_looped_slices"

(* Lines 118-127 *)
EnterWalk ==
    /\ Walking
    /\ ret.pc = "called"
    /\ LET window_start == Max(args.chunk_start, args.clip_start)
           window_end == Min(args.chunk_end, args.loop_until)
       IN  ret' = IF args.duration <= 0 \/ window_end <= window_start
                  THEN [ret EXCEPT !.pc = "returned"]
                  ELSE [pc |-> "walking", current_pos |-> window_start,
                        window_end |-> window_end, slices |-> <<>>]
    /\ UNCHANGED <<args, pvars, svars, bvars>>

(* Lines 128-146: one turn of the while loop *)
LoopTurn ==
    /\ Walking
    /\ ret.pc = "walking"
    /\ ret.current_pos < ret.window_end
    /\ LET offset_in_loop == RoundFloat(ret.current_pos - args.clip_start)
                                 % args.duration
           remaining_in_loop == RoundFloat(args.duration - offset_in_loop)
           slice_end == Min(RoundFloat(ret.current_pos + remaining_in_loop),
                            ret.window_end)
           slice_duration == RoundFloat(slice_end - ret.current_pos)
       IN  ret' = [ret EXCEPT
                      !.slices = IF slice_duration > 0
                                 THEN Append(@, [source_start |-> offset_in_loop,
                                                 duration |-> slice_duration,
                                                 output_start |-> ret.current_pos])
                                 ELSE @,
                      !.current_pos = slice_end]
    /\ UNCHANGED <<args, pvars, svars, bvars>>

(* Line 128: the loop ends and the call returns *)
LeaveWalk ==
    /\ Walking
    /\ ret.pc = "walking"
    /\ ret.current_pos >= ret.window_end
    /\ ret' = [ret EXCEPT !.pc = "returned"]
    /\ UNCHANGED <<args, pvars, svars, bvars>>

(* Times in eighths of a second *)
UnitsPerSec == 8

MaxWalkSec == 12

(* A looping clip of the whole project on a file of 8, 16, 18, 20 or 24    *)
(* units or without a probed duration, asked for a window of one second    *)
(* that starts on a whole second                                           *)
WalkCalls ==
    {[fn |-> "_add_looped_slices", clip_start |-> s, duration |-> d,
      loop_until |-> MaxWalkSec * UnitsPerSec,
      chunk_start |-> c * UnitsPerSec, chunk_end |-> (c + 1) * UnitsPerSec] :
        s \in {0, UnitsPerSec},
        d \in {0, 8, 16, 18, 20, 24},
        c \in 0..(MaxWalkSec - 1)}

InitWalk ==
    /\ NoRender
    /\ args \in {call \in WalkCalls :
                    IsFloat(call.chunk_start) /\ IsFloat(call.chunk_end)
                        /\ IsFloat(call.duration)}
    /\ ret = [pc |-> "called", current_pos |-> 0, window_end |-> 0, slices |-> <<>>]

NextWalk == EnterWalk \/ LoopTurn \/ LeaveWalk

(* The scheduler runs in the renderer's thread: a turn that can be taken   *)
(* is taken.                                                               *)
SpecWalk == InitWalk /\ [][NextWalk]_vars /\ WF_vars(NextWalk)

(* C23: for every window the scheduler returns the slices of a looping     *)
(* clip, the slices that the claim says tile the clip's interval.          *)
C23_LoopedSlicesReturned == <>(ret.pc = "returned")

-----------------------------------------------------------------------------
(* Claims about the streaming compressor *)

(* The chunk starts the compressor of a track has been fed, in order *)
FedChunks(id) ==
    IF id \in DOMAIN processor.compressors THEN processor.compressors[id] ELSE <<>>

(* C29: the compressor of a voice track with dialogue compression is fed   *)
(* the track buffer of every chunk window of the pass that holds samples,  *)
(* in time order and without gaps, also of the windows in which the track  *)
(* has no active clip.                                                     *)
C29_CompressorFedEveryChunk ==
    (InPass /\ pc # "aborted") =>
        \A t \in 1..Len(timeline.tracks) :
            TrackStreamingCompression(timeline.tracks[t], timeline) =>
                FedChunks(timeline.tracks[t].id)
                    = MeasuredUpTo(PassSegments, Len(PassSegments))

-----------------------------------------------------------------------------
(* Claims about the crossfade overlap and the auto-fixer *)

(* In the clips of a track after preprocess_scenes: b was given a fade-in  *)
(* and starts that long before the end of a, which was given a fade-out    *)
OverlapsForCrossfade(a, b) ==
    /\ a.fade_out # Absent
    /\ b.fade_in # Absent
    /\ b.fade_in > 0
    /\ b.start = AutofixEnd(a) - b.fade_in

(* C30: a clip that the scene crossfade moved to start the crossfade       *)
(* duration before the previous clip's end still starts there after        *)
(* auto_fix_overlaps and keeps its loop_until.                             *)
C30_CrossfadeOverlapSurvives ==
    (pc = "fixed" /\ CrossfadeOn(before)) =>
        \A t \in 1..Len(before.tracks) :
            \A ia \in 1..Len(before.tracks[t].clips),
               ib \in 1..Len(before.tracks[t].clips) :
                OverlapsForCrossfade(before.tracks[t].clips[ia],
                                     before.tracks[t].clips[ib])
                => /\ OverlapsForCrossfade(timeline.tracks[t].clips[ia],
                                           timeline.tracks[t].clips[ib])
                   /\ timeline.tracks[t].clips[ib].loop_until
                         = before.tracks[t].clips[ib].loop_until

====
